---- MODULE Spec2Model ----
(***************************************************************************)
(* Model of the booking/expense matching engine:                           *)
(*   - MatchingService.matchBookingsWithExpenses and its generic scorer,   *)
(*   - the batch service (startMatchingProcess, processExpenseBatch,       *)
(*     calculateGenericMatchScore),                                        *)
(*   - FlightMatcher.calculateFlightMatchScore,                            *)
(*   - SimpleFlightMatcher.findMatches and its strict card-gate scorer.    *)
(*                                                                         *)
(* Conventions.  A JavaScript string is a TLA+ string; an absent           *)
(* (undefined) string field is "", which JavaScript treats as falsy just   *)
(* like undefined.  A number field is <<>> when undefined and <<v>> when   *)
(* it holds v.  Scores are exact rationals <<n, d>> while they are         *)
(* accumulated and integers in hundredths once rounded (0.15 is 15).       *)
(***************************************************************************)
EXTENDS Integers, Sequences, FiniteSets, TLC

(***************************************************************************)
(* Characters and JavaScript string primitives                             *)
(***************************************************************************)
\* const v = value; Body(v).  The value is computed a single time and bound
\* like a local constant of the code (a definition in a LET is an expression
\* that TLC may compute again at each of its uses).
Once(value, Body(_)) == CHOOSE r \in {Body(v) : v \in {value}} : TRUE

UpperChars == "ABCDEFGHIJKLMNOPQRSTUVWXYZ"
LowerChars == "abcdefghijklmnopqrstuvwxyz"
DigitChars == "0123456789"

Char(s, i) == SubSeq(s, i, i)

\* position of the one-character string c in alphabet, 0 when it is not there
IndexIn(c, alphabet) ==
  IF \E i \in 1..Len(alphabet) : Char(alphabet, i) = c
  THEN CHOOSE i \in 1..Len(alphabet) : Char(alphabet, i) = c
  ELSE 0

IsUpper(c) == IndexIn(c, UpperChars) > 0
IsLower(c) == IndexIn(c, LowerChars) > 0
IsDigit(c) == IndexIn(c, DigitChars) > 0
\* \s of a regular expression
IsSpace(c) == c = " "
\* \w of a regular expression
IsWord(c) == IsUpper(c) \/ IsLower(c) \/ IsDigit(c) \/ c = "_"

RECURSIVE toLowerCase(_)
toLowerCase(s) ==
  IF s = "" THEN ""
  ELSE LET c == Head(s)
           k == IndexIn(c, UpperChars)
       IN (IF k > 0 THEN Char(LowerChars, k) ELSE c) \o toLowerCase(Tail(s))

RECURSIVE trimStart(_)
trimStart(s) == IF s # "" /\ IsSpace(Head(s)) THEN trimStart(Tail(s)) ELSE s

RECURSIVE trimEnd(_)
trimEnd(s) ==
  IF s # "" /\ IsSpace(Char(s, Len(s)))
  THEN trimEnd(SubSeq(s, 1, Len(s) - 1))
  ELSE s

trim(s) == trimEnd(trimStart(s))

\* s.replace(/[^\w\s]/g, '')
RECURSIVE removeSpecial(_)
removeSpecial(s) ==
  IF s = "" THEN ""
  ELSE LET c == Head(s)
       IN (IF IsWord(c) \/ IsSpace(c) THEN c ELSE "") \o removeSpecial(Tail(s))

\* s.replace(/\s+/g, ' ')
RECURSIVE collapseSpaces(_)
collapseSpaces(s) ==
  IF s = "" THEN ""
  ELSE IF IsSpace(Head(s))
       THEN " " \o collapseSpaces(trimStart(s))
       ELSE Head(s) \o collapseSpaces(Tail(s))

\* s.includes(t)
includes(s, t) ==
  \E i \in 1..(Len(s) - Len(t) + 1) : SubSeq(s, i, i + Len(t) - 1) = t

\* s.split(/\s+/): the pieces between maximal runs of whitespace
RECURSIVE splitFrom(_, _)
splitFrom(s, piece) ==
  IF s = "" THEN <<piece>>
  ELSE IF IsSpace(Head(s))
       THEN <<piece>> \o splitFrom(trimStart(s), "")
       ELSE splitFrom(Tail(s), piece \o Head(s))

split(s) == splitFrom(s, "")

Min2(a, b) == IF a <= b THEN a ELSE b
Max2(a, b) == IF a >= b THEN a ELSE b
Abs(a) == IF a < 0 THEN -a ELSE a

(***************************************************************************)
(* Exact arithmetic for the scores: <<n, d>> is n/d with d > 0             *)
(***************************************************************************)
RECURSIVE Gcd(_, _)
Gcd(a, b) == IF b = 0 THEN a ELSE Gcd(b, a % b)

Frac(n, d) ==
  LET g == Gcd(Abs(n), d) IN IF g = 0 THEN <<0, 1>> ELSE <<n \div g, d \div g>>

FAdd(x, y) == Frac(x[1] * y[2] + y[1] * x[2], x[2] * y[2])
FScale(k, x) == Frac(k * x[1], x[2])
\* x > n/d
FGreater(x, n, d) == x[1] * d > n * x[2]
FZero == <<0, 1>>
FOne == <<1, 1>>

\* Math.round(100 * total / maxPossible), the score in hundredths
RoundHundredths(total, maxPossible) ==
  (200 * total[1] + total[2] * maxPossible) \div (2 * total[2] * maxPossible)

(***************************************************************************)
(* Dates: new Date(str) for the ISO date-only form YYYY-MM-DD; every other *)
(* text is an Invalid Date (NaN)                                           *)
(***************************************************************************)
DigitVal(c) == IndexIn(c, DigitChars) - 1

RECURSIVE AllDigits(_)
AllDigits(s) == s = "" \/ (IsDigit(Head(s)) /\ AllDigits(Tail(s)))

RECURSIVE NumVal(_)
NumVal(s) ==
  IF s = "" THEN 0
  ELSE 10 * NumVal(SubSeq(s, 1, Len(s) - 1)) + DigitVal(Char(s, Len(s)))

IsLeap(y) == (y % 4 = 0 /\ y % 100 # 0) \/ y % 400 = 0

DaysInMonth(y, m) ==
  IF m = 2 THEN (IF IsLeap(y) THEN 29 ELSE 28)
  ELSE IF m \in {4, 6, 9, 11} THEN 30 ELSE 31

\* !isNaN(new Date(str).getTime())
IsValidDate(str) ==
  /\ Len(str) = 10
  /\ Char(str, 5) = "-" /\ Char(str, 8) = "-"
  /\ AllDigits(SubSeq(str, 1, 4)) /\ AllDigits(SubSeq(str, 6, 7))
  /\ AllDigits(SubSeq(str, 9, 10))
  /\ NumVal(SubSeq(str, 6, 7)) \in 1..12
  /\ NumVal(SubSeq(str, 9, 10)) \in
       1..DaysInMonth(NumVal(SubSeq(str, 1, 4)), NumVal(SubSeq(str, 6, 7)))

\* new Date(str).getTime() / (1000 * 60 * 60 * 24): days since 1970-01-01
DayNumber(str) ==
  LET y0 == NumVal(SubSeq(str, 1, 4))
      m == NumVal(SubSeq(str, 6, 7))
      d == NumVal(SubSeq(str, 9, 10))
      y == IF m <= 2 THEN y0 - 1 ELSE y0
      era == y \div 400
      yoe == y - era * 400
      mp == IF m > 2 THEN m - 3 ELSE m + 9
      doy == (153 * mp + 2) \div 5 + d - 1
      doe == yoe * 365 + yoe \div 4 - yoe \div 100 + doy
  IN era * 146097 + doe - 719468

(***************************************************************************)
(* MatchingService.ts: helpers of the generic scorer                       *)
(***************************************************************************)
\* one row of the Levenshtein matrix from the previous row
RECURSIVE levRow(_, _, _, _)
levRow(prev, c1, str2, row) ==
  LET j == Len(row)
  IN IF j > Len(str2) THEN row
     ELSE LET cost == IF c1 = Char(str2, j) THEN 0 ELSE 1
              cell == Min2(Min2(prev[j + 1] + 1, row[j] + 1), prev[j] + cost)
          IN levRow(prev, c1, str2, Append(row, cell))

RECURSIVE levRows(_, _, _, _)
levRows(str1, str2, i, prev) ==
  IF i > Len(str1) THEN prev
  ELSE levRows(str1, str2, i + 1, levRow(prev, Char(str1, i), str2, <<prev[1] + 1>>))

levenshteinDistance(str1, str2) ==
  levRows(str1, str2, 1, [j \in 1..(Len(str2) + 1) |-> j - 1])[Len(str2) + 1]

normalizeString(str) == collapseSpaces(removeSpecial(trim(toLowerCase(str))))

fuzzyStringMatch(str1, str2) ==
  Once(normalizeString(str1), LAMBDA norm1 :
  Once(normalizeString(str2), LAMBDA norm2 :
    IF norm1 = norm2 THEN FOne
    ELSE IF includes(norm1, norm2) \/ includes(norm2, norm1) THEN Frac(9, 10)
    ELSE Frac(Max2(Len(norm1), Len(norm2)) - levenshteinDistance(norm1, norm2),
              Max2(Len(norm1), Len(norm2)))))

\* the name parts of parts1 that equal a part of parts2 or are within
\* Levenshtein distance 2 of one
matchingNameParts(parts1, parts2) ==
  Cardinality({i \in 1..Len(parts1) :
    \E j \in 1..Len(parts2) :
      \/ parts1[i] = parts2[j]
      \/ levenshteinDistance(parts1[i], parts2[j]) <= 2})

fuzzyNameMatch(name1, name2) ==
  Once(normalizeString(name1), LAMBDA norm1 :
  Once(normalizeString(name2), LAMBDA norm2 :
    IF norm1 = norm2 THEN FOne
    ELSE IF includes(norm1, norm2) \/ includes(norm2, norm1) THEN Frac(9, 10)
    ELSE Once(split(norm1), LAMBDA parts1 :
         Once(split(norm2), LAMBDA parts2 :
           Frac(matchingNameParts(parts1, parts2),
                Max2(Len(parts1), Len(parts2)))))))

\* percentDiff <= k, with percentDiff = (diff / avgAmount) * 100 as IEEE
\* division gives it: +Infinity when the average is 0, negative when it is
\* negative
percentDiffAtMost(diff, amount1, amount2, k) ==
  LET sum == amount1 + amount2
  IN IF sum > 0 THEN 200 * diff <= k * sum ELSE sum < 0

fuzzyAmountMatch(amount1, amount2) ==
  LET diff == Abs(amount1 - amount2)
  IN IF diff = 0 THEN FOne
     ELSE IF percentDiffAtMost(diff, amount1, amount2, 1) THEN Frac(98, 100)
     ELSE IF percentDiffAtMost(diff, amount1, amount2, 5) THEN Frac(9, 10)
     ELSE IF percentDiffAtMost(diff, amount1, amount2, 10) THEN Frac(85, 100)
     ELSE IF percentDiffAtMost(diff, amount1, amount2, 15) THEN Frac(8, 10)
     ELSE FZero

travelTypeMap ==
  << <<"flight", <<"air", "airline", "airfare", "plane", "aviation">> >>,
     <<"hotel", <<"lodging", "accommodation", "room">> >>,
     <<"car", <<"vehicle", "rental", "auto", "automobile">> >>,
     <<"train", <<"rail", "railway", "railroad">> >>,
     <<"taxi", <<"cab", "ride", "uber", "lyft">> >> >>

\* norm names category k or one of its aliases
inCategory(norm, k) ==
  \/ includes(norm, travelTypeMap[k][1])
  \/ \E a \in 1..Len(travelTypeMap[k][2]) : includes(norm, travelTypeMap[k][2][a])

matchTravelTypes(bookingType, expenseType) ==
  Once(normalizeString(bookingType), LAMBDA normBooking :
  Once(normalizeString(expenseType), LAMBDA normExpense :
    \/ normBooking = normExpense
    \/ \E k \in 1..Len(travelTypeMap) :
         inCategory(normBooking, k) /\ inCategory(normExpense, k)))

\* the valid dates of a record: the fields that are present and parse
validDates(fields) ==
  {DayNumber(fields[i]) : i \in {k \in 1..Len(fields) :
                                   fields[k] # "" /\ IsValidDate(fields[k])}}

\* the least element of a nonempty set of numbers
Least(numbers) == CHOOSE m \in numbers : \A o \in numbers : m <= o

matchDates(booking, expense) ==
  Once(validDates(<<booking.bookingDate, booking.departureDate, booking.returnDate>>),
       LAMBDA validBookingDates :
  Once(validDates(<<expense.expenseDate, expense.startDate, expense.endDate>>),
       LAMBDA validExpenseDates :
    IF validBookingDates = {} \/ validExpenseDates = {} THEN FZero
    ELSE Once(Least({Abs(b - e) : b \in validBookingDates, e \in validExpenseDates}),
              LAMBDA minDaysDiff :
           IF minDaysDiff = 0 THEN FOne
           ELSE IF minDaysDiff <= 1 THEN Frac(95, 100)
           ELSE IF minDaysDiff <= 3 THEN Frac(9, 10)
           ELSE IF minDaysDiff <= 7 THEN Frac(8, 10)
           ELSE IF minDaysDiff <= 14 THEN Frac(6, 10)
           ELSE IF minDaysDiff <= 30 THEN Frac(4, 10)
           ELSE FZero)))

(***************************************************************************)
(* Weighted scoring.  A criterion contributes to the running total, to the *)
(* running maximum-possible total and to the reasons list.                 *)
(***************************************************************************)
NoCardLast4 == "[No card last 4 found]"

Contribution(maxPossible, total, reasons) ==
  [maxPossibleScore |-> maxPossible, totalScore |-> total, reasons |-> reasons]

\* a criterion whose guard is false: the code skips the whole block
Skipped == Contribution(0, FZero, <<>>)

RECURSIVE Accumulate(_)
Accumulate(criteria) ==
  IF criteria = <<>> THEN Skipped
  ELSE Once(Head(criteria), LAMBDA c :
       Once(Accumulate(Tail(criteria)), LAMBDA rest :
         Contribution(c.maxPossibleScore + rest.maxPossibleScore,
                      FAdd(c.totalScore, rest.totalScore),
                      c.reasons \o rest.reasons)))

\* a criterion whose guard holds: the weight joins the maximum, and
\* weight * score joins the total, with the reason, when score > n/d
Weighted(weight, score, n, d, reason) ==
  Once(score, LAMBDA s :
    IF FGreater(s, n, d)
    THEN Contribution(weight, FScale(weight, s), <<reason>>)
    ELSE Contribution(weight, FZero, <<>>))

\* normalizedScore = maxPossibleScore > 0 ? totalScore / maxPossibleScore : 0
\* score: Math.round(normalizedScore * 100) / 100, kept in hundredths
NormalizedResult(acc) ==
  [score |-> IF acc.maxPossibleScore > 0
             THEN RoundHundredths(acc.totalScore, acc.maxPossibleScore)
             ELSE 0,
   reasons |-> acc.reasons,
   totalScore |-> acc.totalScore,
   maxPossibleScore |-> acc.maxPossibleScore]

(***************************************************************************)
(* MatchingService.ts: calculateMatchScore                                 *)
(***************************************************************************)
\* 1. reference numbers
referenceCriterion(booking, expense) ==
  IF booking.bookingReference # "" /\ expense.description # ""
  THEN IF includes(normalizeString(expense.description),
                   normalizeString(booking.bookingReference))
       THEN Contribution(20, Frac(20, 1), <<"Reference match">>)
       ELSE Contribution(20, FZero, <<>>)
  ELSE Skipped

\* 2. name matching
nameCriterion(booking, expense) ==
  IF booking.travelerName # "" /\ expense.employeeName # ""
  THEN Weighted(15, fuzzyNameMatch(booking.travelerName, expense.employeeName), 7, 10, "Name match")
  ELSE Skipped

\* mutant of amountCriterion: the weight is not added to maxPossibleScore
amountCriterion_NoMaximum(booking, expense) ==
  IF booking.amount # <<>> /\ expense.amount # <<>>
  THEN LET amountScore == fuzzyAmountMatch(booking.amount[1], expense.amount[1])
       IN IF FGreater(amountScore, 8, 10)
          THEN Contribution(0, FScale(15, amountScore), <<"Amount match">>)
          ELSE Skipped
  ELSE Skipped

\* 3. amount matching
amountCriterion(booking, expense) ==
  IF booking.amount # <<>> /\ expense.amount # <<>>
  THEN Weighted(15, fuzzyAmountMatch(booking.amount[1], expense.amount[1]), 8, 10, "Amount match")
  ELSE Skipped

\* 4. credit card last 4 digits
cardCriterion(booking, expense) ==
  IF /\ booking.cardLast4Normalized # "" /\ expense.cardLast4Normalized # ""
     /\ booking.cardLast4Normalized # NoCardLast4
     /\ expense.cardLast4Normalized # NoCardLast4
  THEN IF booking.cardLast4Normalized = expense.cardLast4Normalized
       THEN Contribution(20, Frac(20, 1), <<"Card last 4 match">>)
       ELSE Contribution(20, FZero, <<>>)
  ELSE Skipped

\* 5. travel type
travelTypeCriterion(booking, expense) ==
  IF booking.travelType # "" /\ expense.expenseType # ""
  THEN IF matchTravelTypes(booking.travelType, expense.expenseType)
       THEN Contribution(10, Frac(10, 1), <<"Travel type match">>)
       ELSE Contribution(10, FZero, <<>>)
  ELSE Skipped

\* 6. vendor
vendorCriterion(booking, expense) ==
  IF booking.vendor # "" /\ expense.vendor # ""
  THEN Weighted(10, fuzzyStringMatch(booking.vendor, expense.vendor), 6, 10, "Vendor match")
  ELSE Skipped

\* 7. dates: the weight is added to maxPossibleScore before matchDates runs,
\* whether or not either side has a date
dateCriterion(booking, expense) ==
  Weighted(10, matchDates(booking, expense), 0, 1, "Date alignment")

\* 8. location
originCriterion(booking, expense) ==
  IF booking.origin # "" /\ expense.origin # ""
  THEN Weighted(5, fuzzyStringMatch(booking.origin, expense.origin), 7, 10, "Origin match")
  ELSE Skipped

destinationCriterion(booking, expense) ==
  IF booking.destination # "" /\ expense.destination # ""
  THEN Weighted(5, fuzzyStringMatch(booking.destination, expense.destination), 7, 10, "Destination match")
  ELSE Skipped

\* the criteria in the order the code evaluates them
matchScoreCriteria(booking, expense) ==
  << referenceCriterion(booking, expense), nameCriterion(booking, expense),
     amountCriterion(booking, expense), cardCriterion(booking, expense),
     travelTypeCriterion(booking, expense), vendorCriterion(booking, expense),
     dateCriterion(booking, expense), originCriterion(booking, expense),
     destinationCriterion(booking, expense) >>

calculateMatchScore(booking, expense) ==
  NormalizedResult(Accumulate(matchScoreCriteria(booking, expense)))

(***************************************************************************)
(* Batch service: helpers and calculateGenericMatchScore.  Its regular     *)
(* expressions are written with doubled backslashes, so the class          *)
(* [^\\w\\s] keeps only the characters backslash, w and s, and \\s+ is a   *)
(* backslash followed by one or more s.                                    *)
(***************************************************************************)
Backslash == "\\"

\* s.replace(/[^\\w\\s]/g, '')
RECURSIVE batchRemoveSpecial(_)
batchRemoveSpecial(s) ==
  IF s = "" THEN ""
  ELSE LET c == Head(s)
       IN (IF c \in {Backslash, "w", "s"} THEN c ELSE "") \o batchRemoveSpecial(Tail(s))

RECURSIVE dropLeading(_, _)
dropLeading(s, c) == IF s # "" /\ Head(s) = c THEN dropLeading(Tail(s), c) ELSE s

\* does a match of /\\s+/ start at the head of s
startsBackslashS(s) == Len(s) >= 2 /\ Char(s, 1) = Backslash /\ Char(s, 2) = "s"

\* s.replace(/\\s+/g, ' ')
RECURSIVE batchCollapse(_)
batchCollapse(s) ==
  IF s = "" THEN ""
  ELSE IF startsBackslashS(s)
       THEN " " \o batchCollapse(dropLeading(Tail(s), "s"))
       ELSE Head(s) \o batchCollapse(Tail(s))

batchNormalizeString(str) ==
  IF str = "" THEN ""
  ELSE batchCollapse(batchRemoveSpecial(trim(toLowerCase(str))))

\* s.split(/\\s+/)
RECURSIVE batchSplitFrom(_, _)
batchSplitFrom(s, piece) ==
  IF s = "" THEN <<piece>>
  ELSE IF startsBackslashS(s)
       THEN <<piece>> \o batchSplitFrom(dropLeading(Tail(s), "s"), "")
       ELSE batchSplitFrom(Tail(s), piece \o Head(s))

batchSplit(s) == batchSplitFrom(s, "")

SeqRange(seq) == {seq[i] : i \in 1..Len(seq)}

batchFuzzyNameMatch(name1, name2) ==
  Once(batchNormalizeString(name1), LAMBDA norm1 :
  Once(batchNormalizeString(name2), LAMBDA norm2 :
    IF norm1 = norm2 THEN FOne
    ELSE IF includes(norm1, norm2) \/ includes(norm2, norm1) THEN Frac(9, 10)
    ELSE Once(batchSplit(norm1), LAMBDA parts1 :
         Once(batchSplit(norm2), LAMBDA parts2 :
           Frac(Cardinality({i \in 1..Len(parts1) : parts1[i] \in SeqRange(parts2)}),
                Max2(Len(parts1), Len(parts2)))))))

batchFuzzyStringMatch(str1, str2) ==
  Once(batchNormalizeString(str1), LAMBDA norm1 :
  Once(batchNormalizeString(str2), LAMBDA norm2 :
    IF norm1 = norm2 THEN FOne
    ELSE IF includes(norm1, norm2) \/ includes(norm2, norm1) THEN Frac(9, 10)
    ELSE Once(SeqRange(batchSplit(norm1)), LAMBDA words1 :
         Once(SeqRange(batchSplit(norm2)), LAMBDA words2 :
           LET overlap == Cardinality(words1 \cap words2)
               totalWords == Cardinality(words1) + Cardinality(words2) - overlap
           IN IF totalWords > 0 THEN Frac(overlap, totalWords) ELSE FZero))))

genericCardCriterion(booking, expense) ==
  IF /\ booking.cardLast4Normalized # "" /\ expense.cardLast4Normalized # ""
     /\ booking.cardLast4Normalized # NoCardLast4
     /\ expense.cardLast4Normalized # NoCardLast4
  THEN IF booking.cardLast4Normalized = expense.cardLast4Normalized
       THEN Contribution(30, Frac(30, 1), <<"Card last 4 match">>)
       ELSE Contribution(30, FZero, <<>>)
  ELSE Skipped

genericAmountCriterion(booking, expense) ==
  IF booking.amount # <<>> /\ expense.amount # <<>>
  THEN Weighted(15, fuzzyAmountMatch(booking.amount[1], expense.amount[1]), 8, 10, "Amount match")
  ELSE Skipped

genericNameCriterion(booking, expense) ==
  IF booking.travelerName # "" /\ expense.employeeName # ""
  THEN Weighted(15, batchFuzzyNameMatch(booking.travelerName, expense.employeeName), 7, 10, "Name match")
  ELSE Skipped

genericReferenceCriterion(booking, expense) ==
  IF booking.bookingReference # "" /\ expense.description # ""
  THEN IF includes(batchNormalizeString(expense.description),
                   batchNormalizeString(booking.bookingReference))
       THEN Contribution(20, Frac(20, 1), <<"Reference match">>)
       ELSE Contribution(20, FZero, <<>>)
  ELSE Skipped

genericVendorCriterion(booking, expense) ==
  IF booking.vendor # "" /\ expense.vendor # ""
  THEN Weighted(10, batchFuzzyStringMatch(booking.vendor, expense.vendor), 6, 10, "Vendor match")
  ELSE Skipped

genericCriteria(booking, expense) ==
  << genericCardCriterion(booking, expense), genericAmountCriterion(booking, expense),
     genericNameCriterion(booking, expense), genericReferenceCriterion(booking, expense),
     genericVendorCriterion(booking, expense) >>

calculateGenericMatchScore(booking, expense) ==
  NormalizedResult(Accumulate(genericCriteria(booking, expense)))

(***************************************************************************)
(* FlightMatcher: helpers                                                  *)
(***************************************************************************)
\* FlightMatcher.normalizeString returns '' for a falsy argument and is
\* otherwise the same chain of replacements
flightNormalizeString(str) == IF str = "" THEN "" ELSE normalizeString(str)

flightFuzzyStringMatch(str1, str2) ==
  IF str1 = "" \/ str2 = "" THEN FZero
  ELSE Once(flightNormalizeString(str1), LAMBDA norm1 :
       Once(flightNormalizeString(str2), LAMBDA norm2 :
         IF norm1 = norm2 THEN FOne
         ELSE IF includes(norm1, norm2) \/ includes(norm2, norm1) THEN Frac(9, 10)
         ELSE Frac(Max2(Len(norm1), Len(norm2)) - levenshteinDistance(norm1, norm2),
                   Max2(Len(norm1), Len(norm2)))))

\* Math.abs((expenseAmount / bookingAmount) - 0.5) < 0.05; a division by
\* zero gives an infinity or NaN and the comparison is false
isPartialPayment(bookingAmount, expenseAmount) ==
  bookingAmount # 0 /\ 10 * Abs(2 * expenseAmount - bookingAmount) < Abs(bookingAmount)

\* arguments are number fields: <<>> is undefined
fuzzyFlightAmountMatch(bookingAmount, expenseAmount) ==
  IF bookingAmount = <<>> \/ expenseAmount = <<>>
  THEN [score |-> FZero, reason |-> ""]
  ELSE LET b == bookingAmount[1]
           e == expenseAmount[1]
           diff == Abs(b - e)
       IN IF diff = 0 THEN [score |-> FOne, reason |-> "Exact amount match"]
          ELSE IF percentDiffAtMost(diff, b, e, 1)
            THEN [score |-> Frac(98, 100),
                  reason |-> "Very close amount match (within 1%)"]
          ELSE IF percentDiffAtMost(diff, b, e, 5)
            THEN [score |-> Frac(9, 10), reason |-> "Close amount match (within 5%)"]
          ELSE IF percentDiffAtMost(diff, b, e, 10)
            THEN [score |-> Frac(85, 100), reason |-> "Good amount match (within 10%)"]
          ELSE IF percentDiffAtMost(diff, b, e, 15)
            THEN [score |-> Frac(75, 100),
                  reason |-> "Possible amount match (within 15%)"]
          ELSE IF isPartialPayment(b, e)
            THEN [score |-> Frac(7, 10), reason |-> "Possible partial payment match"]
          ELSE [score |-> FZero, reason |-> ""]

\* does /\b([A-Z]{2})\b\s*\d+/ match at position i: a word boundary before
\* the two capitals, a word boundary after them (so the next character is
\* not a digit), then optional whitespace and a digit
carrierCodeAt(text, i) ==
  /\ i + 2 <= Len(text)
  /\ i = 1 \/ ~IsWord(Char(text, i - 1))
  /\ IsUpper(Char(text, i)) /\ IsUpper(Char(text, i + 1))
  /\ ~IsWord(Char(text, i + 2))
  /\ LET rest == trimStart(SubSeq(text, i + 2, Len(text)))
     IN rest # "" /\ IsDigit(Head(rest))

\* null is ""
extractCarrierCode(text) ==
  IF text = "" THEN ""
  ELSE Once({i \in 1..Len(text) : carrierCodeAt(text, i)}, LAMBDA hits :
         IF hits = {} THEN ""
         ELSE Once(Least(hits), LAMBDA i : SubSeq(text, i, i + 1)))

\* ref.replace(/(\D+)(\d+)/, '$1' + sep + '$2'): sep goes before the first
\* digit that follows a non-digit
insertBeforeDigits(ref, sep) ==
  Once({q \in 2..Len(ref) : IsDigit(Char(ref, q)) /\ ~IsDigit(Char(ref, q - 1))},
       LAMBDA cuts :
    IF cuts = {} THEN ref
    ELSE Once(Least(cuts), LAMBDA q :
           SubSeq(ref, 1, q - 1) \o sep \o SubSeq(ref, q, Len(ref))))

RECURSIVE digitRun(_)
digitRun(s) == IF s # "" /\ IsDigit(Head(s)) THEN 1 + digitRun(Tail(s)) ELSE 0

\* length of the match of /[a-z]{1,2}\d{3,4}/ at position i, 0 when none
flightNumberAt(s, i) ==
  LET two == /\ i + 1 <= Len(s)
             /\ IsLower(Char(s, i)) /\ IsLower(Char(s, i + 1))
             /\ digitRun(SubSeq(s, i + 2, Len(s))) >= 3
      one == IsLower(Char(s, i)) /\ digitRun(SubSeq(s, i + 1, Len(s))) >= 3
  IN IF two THEN 2 + Min2(4, digitRun(SubSeq(s, i + 2, Len(s))))
     ELSE IF one THEN 1 + Min2(4, digitRun(SubSeq(s, i + 1, Len(s))))
     ELSE 0

\* s.match(/[a-z]{1,2}\d{3,4}/g): the matches from position i on
RECURSIVE flightNumbersFrom(_, _)
flightNumbersFrom(s, i) ==
  IF i > Len(s) THEN <<>>
  ELSE Once(flightNumberAt(s, i), LAMBDA n :
         IF n > 0
         THEN <<SubSeq(s, i, i + n - 1)>> \o flightNumbersFrom(s, i + n)
         ELSE flightNumbersFrom(s, i + 1))

\* both sides match: the average; one side: 0.8 of it
routeScoreOf(originScore, destScore) ==
  IF FGreater(originScore, 0, 1) /\ FGreater(destScore, 0, 1)
  THEN Frac(originScore[1] * destScore[2] + destScore[1] * originScore[2],
            2 * originScore[2] * destScore[2])
  ELSE IF FGreater(originScore, 0, 1) THEN Frac(8 * originScore[1], 10 * originScore[2])
  ELSE IF FGreater(destScore, 0, 1) THEN Frac(8 * destScore[1], 10 * destScore[2])
  ELSE FZero

routeReasonOf(originScore, destScore) ==
  (IF FGreater(originScore, 7, 10) THEN "Origin match. " ELSE "")
    \o (IF FGreater(destScore, 7, 10) THEN "Destination match. " ELSE "")

matchFlightRoute(booking, expense) ==
  IF /\ booking.origin = "" /\ booking.destination = ""
     /\ expense.origin = "" /\ expense.destination = ""
  THEN [score |-> FZero, reason |-> ""]
  ELSE Once(IF booking.origin # "" /\ expense.origin # ""
            THEN flightFuzzyStringMatch(booking.origin, expense.origin) ELSE FZero,
            LAMBDA originScore :
       Once(IF booking.destination # "" /\ expense.destination # ""
            THEN flightFuzzyStringMatch(booking.destination, expense.destination)
            ELSE FZero,
            LAMBDA destScore :
       Once(routeScoreOf(originScore, destScore), LAMBDA routeScore :
         [score |-> routeScore,
          reason |-> IF FGreater(routeScore, 0, 1)
                     THEN trim(routeReasonOf(originScore, destScore)) ELSE ""])))

(***************************************************************************)
(* FlightMatcher.calculateFlightMatchScore                                 *)
(***************************************************************************)
\* also computed by processExpenseBatch to choose the scorer
isFlightBooking(booking) ==
  \/ toLowerCase(booking.bookingTypeNormalized) = "flight"
  \/ includes(toLowerCase(booking.travelType), "flight")
  \/ includes(toLowerCase(booking.travelType), "air")
  \/ includes(toLowerCase(booking.merchantNormalized), "airline")
  \/ includes(toLowerCase(booking.merchantNormalized), "airways")
  \/ includes(toLowerCase(booking.vendor), "airline")
  \/ includes(toLowerCase(booking.vendor), "airways")
  \/ includes(toLowerCase(booking.merchantNormalized), "delta")
  \/ includes(toLowerCase(booking.merchantNormalized), "united")
  \/ includes(toLowerCase(booking.merchantNormalized), "american")
  \/ (booking.origin # "" /\ booking.destination # "")

\* 1. carrier code in the booking reference and the expense description
flightCarrierCriterion(booking, expense) ==
  Once(extractCarrierCode(booking.bookingReference), LAMBDA bookingCarrierCode :
  Once(extractCarrierCode(expense.description), LAMBDA expenseCarrierCode :
    IF bookingCarrierCode # "" /\ expenseCarrierCode # ""
    THEN IF bookingCarrierCode = expenseCarrierCode
         THEN Contribution(25, Frac(25, 1), <<"Airline carrier code match">>)
         ELSE Contribution(25, FZero, <<>>)
    ELSE Skipped))

\* the reference as written, or with a space or a # before its digits, occurs
\* in the description
refFoundIn(bookingRef, expenseDesc) ==
  \E ref \in {bookingRef, insertBeforeDigits(bookingRef, " "),
              insertBeforeDigits(bookingRef, "#")} :
    includes(expenseDesc, ref)

\* some flight-number part of the reference is more than 0.8 similar to one of
\* the description
partFoundIn(bookingRefParts, expenseDescParts) ==
  \E bookingPart \in SeqRange(bookingRefParts) :
    \E expensePart \in SeqRange(expenseDescParts) :
      FGreater(flightFuzzyStringMatch(bookingPart, expensePart), 8, 10)

\* 2. flight number or booking reference in the expense description
flightReferenceCriterion(booking, expense) ==
  IF booking.bookingReference # "" /\ expense.description # ""
  THEN Once(flightNormalizeString(booking.bookingReference), LAMBDA bookingRef :
       Once(flightNormalizeString(expense.description), LAMBDA expenseDesc :
         IF refFoundIn(bookingRef, expenseDesc)
         THEN Contribution(20, Frac(20, 1), <<"Flight reference match">>)
         ELSE IF partFoundIn(flightNumbersFrom(bookingRef, 1),
                             flightNumbersFrom(expenseDesc, 1))
         THEN Contribution(20, Frac(15, 1), <<"Partial flight reference match">>)
         ELSE Contribution(20, FZero, <<>>)))
  ELSE Skipped

\* 3. route: the weight counts only when the route score is positive
flightRouteCriterion(booking, expense) ==
  Once(matchFlightRoute(booking, expense), LAMBDA routeMatch :
    IF FGreater(routeMatch.score, 0, 1)
    THEN Contribution(15, FScale(15, routeMatch.score),
                      IF routeMatch.reason # "" THEN <<routeMatch.reason>> ELSE <<>>)
    ELSE Skipped)

\* 4. traveler name
flightNameCriterion(booking, expense) ==
  IF /\ booking.travelerNameNormalized # ""
     /\ booking.travelerNameNormalized # "[No valid traveler name found]"
     /\ expense.employeeName # ""
  THEN Weighted(15, flightFuzzyStringMatch(booking.travelerNameNormalized,
                                            expense.employeeName),
                7, 10, "Traveler name match")
  ELSE Skipped

\* 5. amount
flightAmountCriterion(booking, expense) ==
  IF booking.amountNormalized # <<>> /\ expense.amount # <<>>
  THEN Once(fuzzyFlightAmountMatch(booking.amountNormalized, expense.amount),
            LAMBDA amountMatch :
         IF FGreater(amountMatch.score, 0, 1)
         THEN Contribution(15, FScale(15, amountMatch.score),
                           IF amountMatch.reason # "" THEN <<amountMatch.reason>>
                           ELSE <<>>)
         ELSE Contribution(15, FZero, <<>>))
  ELSE Skipped

\* 6. card last 4
flightCardCriterion(booking, expense) ==
  IF /\ booking.cardLast4Normalized # "" /\ expense.cardLast4Normalized # ""
     /\ booking.cardLast4Normalized # NoCardLast4
     /\ expense.cardLast4Normalized # NoCardLast4
  THEN IF booking.cardLast4Normalized = expense.cardLast4Normalized
       THEN Contribution(30, Frac(30, 1), <<"Card last 4 match">>)
       ELSE Contribution(30, FZero, <<>>)
  ELSE Skipped

\* 7. card holder name
flightCardHolderCriterion(booking, expense) ==
  IF /\ booking.cardHolderNameNormalized # ""
     /\ booking.cardHolderNameNormalized # "[No card holder name found]"
     /\ booking.cardHolderNameNormalized # "[Invalid card holder name format]"
     /\ expense.employeeName # ""
  THEN Weighted(15, flightFuzzyStringMatch(booking.cardHolderNameNormalized,
                                            expense.employeeName),
                7, 10, "Card holder name match")
  ELSE Skipped

\* 8. merchant / vendor
flightMerchantCriterion(booking, expense) ==
  IF /\ booking.merchantNormalized # ""
     /\ booking.merchantNormalized # "[No merchant found]"
     /\ expense.vendor # ""
  THEN Weighted(10, flightFuzzyStringMatch(booking.merchantNormalized, expense.vendor), 6, 10, "Airline/vendor match")
  ELSE Skipped

\* 9. currency
flightCurrencyCriterion(booking, expense) ==
  IF /\ booking.currencyNormalized # ""
     /\ booking.currencyNormalized # "[No currency found]"
     /\ expense.currency # ""
  THEN IF flightNormalizeString(booking.currencyNormalized)
            = flightNormalizeString(expense.currency)
       THEN Contribution(10, Frac(10, 1), <<"Currency match">>)
       ELSE Contribution(10, FZero, <<>>)
  ELSE Skipped

\* 10. date: the weight is added as soon as both fields are present, before
\* either is parsed
flightDateCriterion(booking, expense) ==
  IF /\ booking.bookingExpectTxTimeNormalized # ""
     /\ booking.bookingExpectTxTimeNormalized # "[No booking time found]"
     /\ expense.expenseDate # ""
  THEN IF /\ IsValidDate(booking.bookingExpectTxTimeNormalized)
          /\ IsValidDate(expense.expenseDate)
       THEN LET daysDiff == Abs(DayNumber(booking.bookingExpectTxTimeNormalized)
                                  - DayNumber(expense.expenseDate))
                dateScore == IF daysDiff = 0 THEN FOne
                             ELSE IF daysDiff <= 2 THEN Frac(95, 100)
                             ELSE IF daysDiff <= 7 THEN Frac(9, 10)
                             ELSE IF daysDiff <= 30 THEN Frac(7, 10)
                             ELSE IF daysDiff <= 90 THEN Frac(5, 10)
                             ELSE FZero
            IN IF FGreater(dateScore, 0, 1)
               THEN Contribution(10, FScale(10, dateScore), <<"Date proximity match">>)
               ELSE Contribution(10, FZero, <<>>)
       ELSE Contribution(10, FZero, <<>>)
  ELSE Skipped

flightCriteria(booking, expense) ==
  << flightCarrierCriterion(booking, expense), flightReferenceCriterion(booking, expense),
     flightRouteCriterion(booking, expense), flightNameCriterion(booking, expense),
     flightAmountCriterion(booking, expense), flightCardCriterion(booking, expense),
     flightCardHolderCriterion(booking, expense),
     flightMerchantCriterion(booking, expense),
     flightCurrencyCriterion(booking, expense), flightDateCriterion(booking, expense) >>

\* mutant of FlightResult: the normalized score is returned without the
\* penalty
FlightResult_NoPenalty(booking, acc) ==
  [score |-> IF acc.maxPossibleScore = 0 THEN 0
             ELSE RoundHundredths(acc.totalScore, acc.maxPossibleScore),
   reasons |-> acc.reasons,
   totalScore |-> acc.totalScore,
   maxPossibleScore |-> acc.maxPossibleScore]

\* the final score of a flight scoring: a booking that fails isFlightBooking
\* keeps its reasons and has its normalized score multiplied by 0.7
FlightResult(booking, acc) ==
  LET penalized == ~isFlightBooking(booking) /\ FGreater(acc.totalScore, 0, 1)
                   /\ acc.maxPossibleScore > 0
  IN [score |-> IF acc.maxPossibleScore = 0 THEN 0
                ELSE IF penalized
                THEN RoundHundredths(FScale(7, acc.totalScore), 10 * acc.maxPossibleScore)
                ELSE RoundHundredths(acc.totalScore, acc.maxPossibleScore),
      reasons |-> acc.reasons,
      totalScore |-> acc.totalScore,
      maxPossibleScore |-> acc.maxPossibleScore]

calculateFlightMatchScore(booking, expense) ==
  FlightResult(booking, Accumulate(flightCriteria(booking, expense)))

(***************************************************************************)
(* SimpleFlightMatcher: the strict card-gate scorer                        *)
(***************************************************************************)
simpleNormalizeString(str) == IF str = "" THEN "" ELSE normalizeString(str)

commonAirlineKeywords == <<"air", "airline", "airways", "flight">>

airlineMatches ==
  << <<"delta", "dl ">>, <<"american", "aa ">>, <<"united", "ua ">>,
     <<"southwest", "sw ">>, <<"lufthansa", "lh ">>, <<"british airways", "ba ">> >>

merchantMatches(booking, expense) ==
  IF (booking.merchantNormalized = "" /\ booking.vendor = "") \/ expense.vendor = ""
  THEN FALSE
  ELSE Once(simpleNormalizeString(IF booking.merchantNormalized # ""
                                  THEN booking.merchantNormalized ELSE booking.vendor),
            LAMBDA bookingMerchant :
       Once(simpleNormalizeString(expense.vendor), LAMBDA expenseMerchant :
         \/ bookingMerchant = expenseMerchant
         \/ includes(bookingMerchant, expenseMerchant)
         \/ includes(expenseMerchant, bookingMerchant)
         \/ \E k \in 1..Len(commonAirlineKeywords) :
              /\ includes(bookingMerchant, commonAirlineKeywords[k])
              /\ includes(expenseMerchant, commonAirlineKeywords[k])
         \/ \E k \in 1..Len(airlineMatches) :
              \/ /\ includes(bookingMerchant, airlineMatches[k][1])
                 /\ includes(expenseMerchant, airlineMatches[k][2])
              \/ /\ includes(expenseMerchant, airlineMatches[k][1])
                 /\ includes(bookingMerchant, airlineMatches[k][2])))

amountMatches(booking, expense) ==
  IF booking.amountNormalized = <<>> \/ expense.amount = <<>> THEN FZero
  ELSE LET bookingAmount == booking.amountNormalized[1]
           expenseAmount == expense.amount[1]
           diff == Abs(bookingAmount - expenseAmount)
       IN IF bookingAmount = expenseAmount THEN FOne
          ELSE IF percentDiffAtMost(diff, bookingAmount, expenseAmount, 1)
            THEN Frac(98, 100)
          ELSE IF percentDiffAtMost(diff, bookingAmount, expenseAmount, 5)
            THEN Frac(9, 10)
          ELSE IF percentDiffAtMost(diff, bookingAmount, expenseAmount, 10)
            THEN Frac(8, 10)
          ELSE IF percentDiffAtMost(diff, bookingAmount, expenseAmount, 15)
            THEN Frac(7, 10)
          ELSE FZero

\* mutant of simpleCalculateMatchScore: a card mismatch only loses the card
\* weight, merchant and amount are still scored
simpleCalculateMatchScore_NoGate(booking, expense) ==
  LET card ==
        IF booking.cardLast4Normalized = expense.cardLast4Normalized
        THEN Contribution(100, Frac(60, 1), <<"Card last 4 match">>)
        ELSE Contribution(100, FZero, <<>>)
      merchant ==
        IF merchantMatches(booking, expense)
        THEN Contribution(0, Frac(20, 1), <<"Merchant match">>) ELSE Skipped
      amountMatchScore == amountMatches(booking, expense)
      amount ==
        IF FGreater(amountMatchScore, 0, 1)
        THEN Contribution(0, FScale(20, amountMatchScore),
                          <<IF amountMatchScore = FOne THEN "Exact amount match"
                            ELSE "Close amount match">>)
        ELSE Skipped
  IN NormalizedResult(Accumulate(<<card, merchant, amount>>))

\* mutant of simpleCalculateMatchScore: the card match weighs 25 of 100
simpleCalculateMatchScore_CardWeight25(booking, expense) ==
  IF booking.cardLast4Normalized # expense.cardLast4Normalized
  THEN [score |-> 0, reasons |-> <<>>, totalScore |-> FZero, maxPossibleScore |-> 100]
  ELSE LET merchant ==
             IF merchantMatches(booking, expense)
             THEN Contribution(0, Frac(20, 1), <<"Merchant match">>) ELSE Skipped
           amountMatchScore == amountMatches(booking, expense)
           amount ==
             IF FGreater(amountMatchScore, 0, 1)
             THEN Contribution(0, FScale(20, amountMatchScore),
                               <<IF amountMatchScore = FOne THEN "Exact amount match"
                                 ELSE "Close amount match">>)
             ELSE Skipped
           acc == Accumulate(<<Contribution(100, Frac(25, 1), <<"Card last 4 match">>),
                               merchant, amount>>)
       IN NormalizedResult(acc)

simpleCalculateMatchScore(booking, expense) ==
  IF booking.cardLast4Normalized # expense.cardLast4Normalized
  THEN [score |-> 0, reasons |-> <<>>, totalScore |-> FZero, maxPossibleScore |-> 100]
  ELSE LET merchant ==
             IF merchantMatches(booking, expense)
             THEN Contribution(0, Frac(20, 1), <<"Merchant match">>) ELSE Skipped
           amountMatchScore == amountMatches(booking, expense)
           amount ==
             IF FGreater(amountMatchScore, 0, 1)
             THEN Contribution(0, FScale(20, amountMatchScore),
                               <<IF amountMatchScore = FOne THEN "Exact amount match"
                                 ELSE "Close amount match">>)
             ELSE Skipped
           acc == Accumulate(<<Contribution(100, Frac(60, 1), <<"Card last 4 match">>),
                               merchant, amount>>)
       IN NormalizedResult(acc)

\* step 1 of filterFlightBookings, on the deep copy of one booking: the card
\* type fixed from the raw network column
fixCardType(booking) ==
  IF booking.creditCardNetwork = "MasterCard"
  THEN [booking EXCEPT !.cardTypeNormalized = "Mastercard"]
  ELSE booking

filterFlightBookings(bookings) ==
  LET fixed == [i \in 1..Len(bookings) |-> fixCardType(bookings[i])]
  IN SelectSeq(fixed, LAMBDA booking :
       booking.cardTypeNormalized = "Mastercard" /\ booking.bookingTypeNormalized = "Flight")

(***************************************************************************)
(* Records handed to the engine                                            *)
(***************************************************************************)
EmptyBooking ==
  [id |-> "", bookingDate |-> "", departureDate |-> "", returnDate |-> "",
   travelerName |-> "", travelType |-> "", vendor |-> "", origin |-> "",
   destination |-> "", bookingReference |-> "", amount |-> <<>>,
   bookingTypeNormalized |-> "", merchantNormalized |-> "",
   cardTypeNormalized |-> "", cardLast4Normalized |-> "",
   cardHolderNameNormalized |-> "", currencyNormalized |-> "",
   amountNormalized |-> <<>>, bookingExpectTxTimeNormalized |-> "",
   travelerNameNormalized |-> "", creditCardNetwork |-> ""]

EmptyExpense ==
  [id |-> "", expenseDate |-> "", startDate |-> "", endDate |-> "",
   employeeName |-> "", expenseType |-> "", description |-> "", vendor |-> "",
   amount |-> <<>>, currency |-> "", origin |-> "", destination |-> "",
   cardLast4Normalized |-> ""]

FlightBooking ==
  [EmptyBooking EXCEPT
     !.bookingDate = "2023-10-15", !.departureDate = "2023-11-01",
     !.returnDate = "2023-11-08", !.travelerName = "John Smith",
     !.travelType = "Flight", !.vendor = "Delta Airlines", !.origin = "SFO",
     !.destination = "JFK", !.bookingReference = "DL1234", !.amount = <<450>>,
     !.bookingTypeNormalized = "Flight", !.merchantNormalized = "Delta Air Lines",
     !.cardTypeNormalized = "Mastercard", !.cardLast4Normalized = "1234",
     !.cardHolderNameNormalized = "John Smith", !.currencyNormalized = "USD",
     !.amountNormalized = <<450>>, !.bookingExpectTxTimeNormalized = "2023-10-15",
     !.travelerNameNormalized = "John Smith"]

HotelBooking ==
  [EmptyBooking EXCEPT
     !.bookingDate = "2023-10-16", !.departureDate = "2023-11-01",
     !.returnDate = "2023-11-04", !.travelerName = "Jane Doe",
     !.travelType = "Hotel", !.vendor = "Marriott",
     !.bookingReference = "HTL5678", !.amount = <<350>>,
     !.bookingTypeNormalized = "Hotel", !.merchantNormalized = "Marriott",
     !.cardTypeNormalized = "Mastercard", !.cardLast4Normalized = "5678",
     !.cardHolderNameNormalized = "Jane Doe", !.currencyNormalized = "USD",
     !.amountNormalized = <<350>>, !.travelerNameNormalized = "Jane Doe"]

\* a second flight on the card of FlightBooking, paid with a Visa card type
VisaFlightBooking ==
  [FlightBooking EXCEPT
     !.bookingReference = "DL5678", !.cardTypeNormalized = "Visa",
     !.amount = <<460>>, !.amountNormalized = <<460>>]

\* a flight whose card type is known only from the raw network column
NetworkFlightBooking ==
  [FlightBooking EXCEPT
     !.bookingReference = "UA 77", !.cardTypeNormalized = "[No card type found]",
     !.creditCardNetwork = "MasterCard", !.vendor = "United Airlines",
     !.merchantNormalized = "United Airlines"]

\* a flight whose card digits are unknown
NoCardFlightBooking ==
  [FlightBooking EXCEPT
     !.bookingReference = "DL9012", !.cardLast4Normalized = NoCardLast4,
     !.travelerName = "Lisa Brown", !.travelerNameNormalized = "Lisa Brown",
     !.cardHolderNameNormalized = "[No card holder name found]"]

FlightExpense ==
  [EmptyExpense EXCEPT
     !.expenseDate = "2023-10-15", !.employeeName = "John Smith",
     !.expenseType = "Airfare", !.description = "Flight DL1234 SFO-JFK",
     !.vendor = "Delta Airlines", !.amount = <<450>>, !.currency = "USD",
     !.origin = "SFO", !.destination = "JFK", !.cardLast4Normalized = "1234"]

\* the one-way leg of the same trip: about half the amount, same card
PartialFlightExpense ==
  [FlightExpense EXCEPT
     !.description = "Delta Airlines SFO-JFK", !.amount = <<225>>,
     !.expenseDate = "2023-10-17"]

HotelExpense ==
  [EmptyExpense EXCEPT
     !.expenseDate = "2023-10-16", !.employeeName = "Jane Doe",
     !.expenseType = "Lodging", !.description = "Marriott Hotel 3 nights",
     !.vendor = "Marriott", !.amount = <<350>>, !.currency = "USD",
     !.cardLast4Normalized = "5678"]

MealExpense ==
  [EmptyExpense EXCEPT
     !.expenseDate = "2023-12-18", !.employeeName = "Lisa Brown",
     !.expenseType = "Meals", !.description = "Dinner with client",
     !.vendor = "Restaurant", !.amount = <<75>>, !.currency = "USD",
     !.cardLast4Normalized = "3456"]

\* records whose card digits are missing: the field is empty, or holds the
\* placeholder of the parser
CardlessBookings == {[FlightBooking EXCEPT !.cardLast4Normalized = ""]}
CardlessExpenses ==
  {[FlightExpense EXCEPT !.cardLast4Normalized = ""],
   [FlightExpense EXCEPT !.cardLast4Normalized = NoCardLast4]}

BookingPool ==
  {FlightBooking, HotelBooking, VisaFlightBooking, NetworkFlightBooking,
   NoCardFlightBooking}
ExpensePool == {FlightExpense, PartialFlightExpense, HotelExpense, MealExpense}

(***************************************************************************)
(* The scorers are pure and never read a record's id, so one run scores    *)
(* the same pair of field values the same way however often it meets it.   *)
(* The three tables hold, for every pair of pool records, the result of    *)
(* the scorer each assignment procedure calls.                             *)
(***************************************************************************)
withoutId(record) == [record EXCEPT !.id = ""]

\* the branch of processExpenseBatch that picks the scorer
batchMatchScore(booking, expense) ==
  IF isFlightBooking(booking)
  THEN calculateFlightMatchScore(booking, expense)
  ELSE calculateGenericMatchScore(booking, expense)

MatchScoreTable ==
  [b \in BookingPool, e \in ExpensePool |-> calculateMatchScore(b, e)]

BatchScoreTable ==
  [b \in BookingPool, e \in ExpensePool |-> batchMatchScore(b, e)]

\* findMatches scores the copies filterFlightBookings has fixed
SimpleScoreTable ==
  [b \in {fixCardType(p) : p \in BookingPool \cup CardlessBookings},
   e \in ExpensePool \cup CardlessExpenses |->
     simpleCalculateMatchScore(b, e)]

scoreIn(table, booking, expense) == table[withoutId(booking), withoutId(expense)]

(***************************************************************************)
(* Assignment                                                              *)
(***************************************************************************)
\* minimum confidence, in hundredths
MINIMUM_CONFIDENCE == 15
MINIMUM_CONFIDENCE_MATCHING == 30
MINIMUM_CONFIDENCE_SIMPLE == 30
BATCH_SIZE == 50
\* record.id || `${prefix}${index}` with a 0-based index
idOr(record, prefix, index) ==
  IF record.id # "" THEN record.id ELSE prefix \o ToString(index)

\* Array.prototype.sort((a, b) => b.score - a.score): stable, descending.
\* sortedPosition is the place element i takes: after every element with a
\* greater score and after the earlier elements with an equal score.
sortedPosition(scored, i) ==
  1 + Cardinality({j \in 1..Len(scored) : scored[j].score > scored[i].score})
    + Cardinality({j \in 1..(i - 1) : scored[j].score = scored[i].score})

\* mutant of sortByScoreDescending: among equal scores the later element
\* comes first
sortByScoreDescending_TiesReversed(scored) ==
  Once(scored, LAMBDA s :
    Once([i \in 1..Len(s) |->
            1 + Cardinality({j \in 1..Len(s) : s[j].score > s[i].score})
              + Cardinality({j \in (i + 1)..Len(s) : s[j].score = s[i].score})],
         LAMBDA position :
      [p \in 1..Len(s) |-> s[CHOOSE i \in 1..Len(s) : position[i] = p]]))

sortByScoreDescending(scored) ==
  Once(scored, LAMBDA s :
    Once([i \in 1..Len(s) |-> sortedPosition(s, i)], LAMBDA position :
      [p \in 1..Len(s) |-> s[CHOOSE i \in 1..Len(s) : position[i] = p]]))

\* the elements of a sequence of one-element and empty sequences, in order
pushedOf(pushes) ==
  Once(SelectSeq(pushes, LAMBDA push : Len(push) > 0), LAMBDA kept :
    [k \in 1..Len(kept) |-> kept[k][1]])

MatchResult(expenseId, bookingId, best) ==
  [expenseId |-> expenseId, bookingId |-> bookingId,
   matchConfidence |-> best.score, matchReason |-> best.reasons]

\* MatchingService.matchBookingsWithExpenses: the score of every booking for
\* one expense, in booking order
scoredBookingsFor(bookings, expense) ==
  [j \in 1..Len(bookings) |->
     Once(scoreIn(MatchScoreTable, bookings[j], expense), LAMBDA matchScore :
       [bookingId |-> idOr(bookings[j], "booking-", j - 1),
        score |-> matchScore.score, reasons |-> matchScore.reasons])]

\* what the loop body pushes for expenses[i], i counting from 1
matchPushedFor(bookings, expenses, i) ==
  Once(sortByScoreDescending(scoredBookingsFor(bookings, expenses[i])), LAMBDA sorted :
    IF Len(sorted) > 0 /\ sorted[1].score >= MINIMUM_CONFIDENCE_MATCHING
    THEN <<MatchResult(idOr(expenses[i], "expense-", i - 1), sorted[1].bookingId,
                       sorted[1])>>
    ELSE <<>>)

matchBookingsWithExpenses(bookings, expenses) ==
  pushedOf([i \in 1..Len(expenses) |-> matchPushedFor(bookings, expenses, i)])

\* batch service: the score of every booking for one expense, in booking order
batchScoredBookingsFor(bookings, expense) ==
  [j \in 1..Len(bookings) |->
     Once(scoreIn(BatchScoreTable, bookings[j], expense), LAMBDA matchScore :
       [bookingId |-> idOr(bookings[j], "booking-", j - 1),
        score |-> matchScore.score, reasons |-> matchScore.reasons])]

\* mutant of batchPushedFor: the best booking is pushed whatever its score
batchPushedFor_NoThreshold(bookings, expenses, i) ==
  Once(sortByScoreDescending(batchScoredBookingsFor(bookings, expenses[i + 1])), LAMBDA sorted :
    IF Len(sorted) > 0
    THEN <<MatchResult(idOr(expenses[i + 1], "expense-", i), sorted[1].bookingId,
                       sorted[1])>>
    ELSE <<>>)

\* what the loop body of processExpenseBatch pushes for the 0-based index i
batchPushedFor(bookings, expenses, i) ==
  Once(sortByScoreDescending(batchScoredBookingsFor(bookings, expenses[i + 1])), LAMBDA sorted :
    IF Len(sorted) > 0 /\ sorted[1].score >= MINIMUM_CONFIDENCE
    THEN <<MatchResult(idOr(expenses[i + 1], "expense-", i), sorted[1].bookingId,
                       sorted[1])>>
    ELSE <<>>)

\* mutant of processExpenseBatch: the fallback id of an expense counts from
\* the start of the batch
processExpenseBatch_BatchRelativeIds(bookings, expenses, startIdx, batchSize) ==
  LET endIdx == Min2(startIdx + batchSize, Len(expenses))
  IN pushedOf([k \in 1..(endIdx - startIdx) |->
       Once(batchPushedFor(bookings, expenses, startIdx + k - 1), LAMBDA push :
         IF push = <<>> \/ expenses[startIdx + k].id # "" THEN push
         ELSE <<[push[1] EXCEPT !.expenseId = "expense-" \o ToString(k - 1)]>>)])

processExpenseBatch(bookings, expenses, startIdx, batchSize) ==
  LET endIdx == Min2(startIdx + batchSize, Len(expenses))
  IN pushedOf([k \in 1..(endIdx - startIdx) |->
                 batchPushedFor(bookings, expenses, startIdx + k - 1)])

\* the filter startMatchingProcess applies to the bookings before the first
\* batch
cardTypeValid(booking) ==
  \/ toLowerCase(booking.cardTypeNormalized) = "mastercard"
  \/ /\ booking.cardTypeNormalized # ""
     /\ booking.cardTypeNormalized # "[No card type found]"
     /\ booking.cardLast4Normalized # ""
     /\ booking.cardLast4Normalized # NoCardLast4

\* mutant of filterBookings: every booking is admitted
filterBookings_KeepsAll(bookings) == bookings

filterBookings(bookings) == SelectSeq(bookings, cardTypeValid)

\* mutant of simpleCandidates: the filter forgets matchedExpenses
simpleCandidates_NoConsume(booking, expenses, matchedExpenses, cardMustEqual) ==
  LET Kept(i) ==
        /\ expenses[i].cardLast4Normalized # ""
        /\ expenses[i].cardLast4Normalized # NoCardLast4
        /\ cardMustEqual =>
             expenses[i].cardLast4Normalized = booking.cardLast4Normalized
      Scored(i) ==
        Once(scoreIn(SimpleScoreTable, booking, expenses[i]), LAMBDA matchScore :
          [expenseId |-> idOr(expenses[i], "expense-", i - 1),
           score |-> matchScore.score, reasons |-> matchScore.reasons])
  IN pushedOf([i \in 1..Len(expenses) |-> IF Kept(i) THEN <<Scored(i)>> ELSE <<>>])

\* SimpleFlightMatcher.findMatches.  cardMustEqual is FALSE for the class in
\* matchers/SimpleFlightMatcher.ts; the copy of the class in
\* TMCParserService.ts also drops, before scoring, the expenses whose card
\* last 4 differs from the booking's (TRUE).
simpleCandidates(booking, expenses, matchedExpenses, cardMustEqual) ==
  LET Kept(i) ==
        /\ idOr(expenses[i], "expense-", i - 1) \notin matchedExpenses
        /\ expenses[i].cardLast4Normalized # ""
        /\ expenses[i].cardLast4Normalized # NoCardLast4
        /\ cardMustEqual =>
             expenses[i].cardLast4Normalized = booking.cardLast4Normalized
      Scored(i) ==
        Once(scoreIn(SimpleScoreTable, booking, expenses[i]), LAMBDA matchScore :
          [expenseId |-> idOr(expenses[i], "expense-", i - 1),
           score |-> matchScore.score, reasons |-> matchScore.reasons])
  IN pushedOf([i \in 1..Len(expenses) |-> IF Kept(i) THEN <<Scored(i)>> ELSE <<>>])

\* the forEach over flightBookings from position k (1-based), carrying the
\* matches so far and the set matchedExpenses
RECURSIVE simpleMatchFrom(_, _, _, _, _, _)
simpleMatchFrom(flightBookings, expenses, k, matches, matchedExpenses, cardMustEqual) ==
  IF k > Len(flightBookings) THEN matches
  ELSE LET booking == flightBookings[k]
           bookingRef == idOr(booking, "booking-", k - 1)
       IN IF booking.cardLast4Normalized = "" \/ booking.cardLast4Normalized = NoCardLast4
          THEN simpleMatchFrom(flightBookings, expenses, k + 1, matches, matchedExpenses,
                               cardMustEqual)
          ELSE Once(sortByScoreDescending(
                      simpleCandidates(booking, expenses, matchedExpenses, cardMustEqual)),
                    LAMBDA sorted :
                 IF Len(sorted) > 0 /\ sorted[1].score >= MINIMUM_CONFIDENCE_SIMPLE
                 THEN simpleMatchFrom(flightBookings, expenses, k + 1,
                        Append(matches,
                          [expenseId |-> sorted[1].expenseId,
                           bookingId |-> bookingRef,
                           matchConfidence |-> sorted[1].score,
                           matchReason |-> Append(sorted[1].reasons,
                                                  "Links to Booking_ID_Normalized")]),
                        matchedExpenses \cup {sorted[1].expenseId}, cardMustEqual)
                 ELSE simpleMatchFrom(flightBookings, expenses, k + 1, matches,
                                      matchedExpenses, cardMustEqual))

findMatches(bookings, expenses) ==
  simpleMatchFrom(filterFlightBookings(bookings), expenses, 1, <<>>, {}, FALSE)

findMatchesTMC(bookings, expenses) ==
  simpleMatchFrom(filterFlightBookings(bookings), expenses, 1, <<>>, {}, TRUE)

\* matches.map(m => m.expenseId), matches.map(m => m.bookingId)
matchedExpenseIds(matches) == [k \in 1..Len(matches) |-> matches[k].expenseId]
matchedBookingIds(matches) == [k \in 1..Len(matches) |-> matches[k].bookingId]
Range(seq) == {seq[k] : k \in 1..Len(seq)}

(***************************************************************************)
(* MatchingService.ts: the records no match refers to                      *)
(***************************************************************************)
\* mutant of getUnmatchedBookings: a booking without an id is compared by its
\* empty id, the position is forgotten
getUnmatchedBookings_NoFallback(bookings, matches) ==
  Once(Range(matchedBookingIds(matches)), LAMBDA matchedIds :
    pushedOf([j \in 1..Len(bookings) |->
                IF bookings[j].id \notin matchedIds
                THEN <<bookings[j]>> ELSE <<>>]))

\* bookings.filter((booking, idx) => !matchedBookingIds.has(booking.id || ...))
getUnmatchedBookings(bookings, matches) ==
  Once(Range(matchedBookingIds(matches)), LAMBDA matchedIds :
    pushedOf([j \in 1..Len(bookings) |->
                IF idOr(bookings[j], "booking-", j - 1) \notin matchedIds
                THEN <<bookings[j]>> ELSE <<>>]))

getUnmatchedExpenses(expenses, matches) ==
  Once(Range(matchedExpenseIds(matches)), LAMBDA matchedIds :
    pushedOf([i \in 1..Len(expenses) |->
                IF idOr(expenses[i], "expense-", i - 1) \notin matchedIds
                THEN <<expenses[i]>> ELSE <<>>]))

\* getMatchStatistics, the same in MatchingService.ts and in the batch
\* service.  Confidences are in hundredths; matchRate is the number toFixed(1)
\* prints, in tenths of a percent.
getMatchStatistics(bookings, expenses, matches) ==
  [totalBookings |-> Len(bookings),
   totalExpenses |-> Len(expenses),
   totalMatches |-> Len(matches),
   matchRate |-> (2000 * Len(matches) + Max2(Len(expenses), 1))
                   \div (2 * Max2(Len(expenses), 1)),
   highConfidence |->
     Len(SelectSeq(matches, LAMBDA m : m.matchConfidence >= 80)),
   mediumConfidence |->
     Len(SelectSeq(matches, LAMBDA m : m.matchConfidence >= 50 /\ m.matchConfidence < 80)),
   lowConfidence |->
     Len(SelectSeq(matches, LAMBDA m : m.matchConfidence < 50)),
   unmatchedBookings |-> Len(bookings) - Len(matches),
   unmatchedExpenses |-> Len(expenses) - Len(matches)]

(***************************************************************************)
(* Inputs                                                                  *)
(***************************************************************************)
MaxBookings == 2
MaxTemplate == 2
MaxChunks == 2
MaxExpenses == 3

SeqsUpTo(pool, n) == UNION {[1..k -> pool] : k \in 0..n}

\* "absent": no record carries an id and the procedures fall back on the
\* position; "given": ids as the expense parser and the test fixtures write
\* them; "same": every record carries one and the same id
IdModes == {"absent", "given", "same"}

givenId(prefix, mode, i) ==
  IF mode = "absent" THEN ""
  ELSE IF mode = "given" THEN prefix \o ToString(i)
  ELSE prefix \o "x"

BookingList(choice, mode) ==
  [j \in 1..Len(choice) |-> [choice[j] EXCEPT !.id = givenId("booking-", mode, j)]]

\* n expenses that repeat a short template
ExpenseList(template, n, mode) ==
  [i \in 1..n |->
     [template[((i - 1) % Len(template)) + 1] EXCEPT
        !.id = givenId("expense-", mode, i - 1)]]

\* the short lengths and the lengths around the chunk boundaries
ExpenseLengths ==
  (0..MaxExpenses) \cup {k * BATCH_SIZE + d : k \in 1..MaxChunks, d \in {-1, 0, 1}}

(***************************************************************************)
(* State                                                                   *)
(***************************************************************************)
VARIABLES
  bookings,   \* the bookings handed to the engine
  expenses,   \* the expenses handed to the engine
  run,        \* the closure of one startMatchingProcess call
  reports,    \* the MatchingProgress objects onProgress has received
  called,     \* the one-shot procedure that was called, "none" before
  result      \* what that procedure returned

vars == <<bookings, expenses, run, reports, called, result>>

NoRun ==
  [started |-> FALSE, timerPending |-> FALSE, filteredBookings |-> <<>>,
   processedExpenses |-> 0, allMatches |-> <<>>, totalExpenses |-> 0]

Init ==
  /\ \E choice \in SeqsUpTo(BookingPool, MaxBookings),
        template \in SeqsUpTo(ExpensePool, MaxTemplate) \ {<<>>},
        n \in ExpenseLengths, mode \in IdModes :
       /\ bookings = BookingList(choice, mode)
       /\ expenses = ExpenseList(template, n, mode)
  /\ run = NoRun
  /\ reports = <<>>
  /\ called = "none"
  /\ result = <<>>

(***************************************************************************)
(* startMatchingProcess                                                    *)
(***************************************************************************)
\* the call itself: filter, initialise the closure, queue the first timer
StartMatchingProcess ==
  /\ ~run.started
  /\ called = "none"
  /\ run' = [started |-> TRUE, timerPending |-> TRUE,
             filteredBookings |-> filterBookings(bookings),
             processedExpenses |-> 0, allMatches |-> <<>>,
             totalExpenses |-> Len(expenses)]
  /\ UNCHANGED <<bookings, expenses, reports, called, result>>

MatchingProgress(totalExpenses, processedExpenses, matches, isComplete) ==
  [totalExpenses |-> totalExpenses, processedExpenses |-> processedExpenses,
   matches |-> matches, isComplete |-> isComplete]

\* mutant of TimerFire: the next timer is queued after every chunk,
\* the last one included
TimerFire_AlwaysReschedule ==
  /\ run.timerPending
  /\ IF run.processedExpenses < run.totalExpenses
     THEN \E batchMatches \in
               {processExpenseBatch(run.filteredBookings, expenses,
                                    run.processedExpenses, BATCH_SIZE)} :
          LET processed == Min2(run.processedExpenses + BATCH_SIZE, run.totalExpenses)
              allMatches == run.allMatches \o batchMatches
          IN /\ reports' = Append(reports,
                  MatchingProgress(run.totalExpenses, processed, allMatches,
                                   processed >= run.totalExpenses))
             /\ run' = [run EXCEPT !.processedExpenses = processed,
                                   !.allMatches = allMatches,
                                   !.timerPending = TRUE]
     ELSE /\ reports' = Append(reports,
               MatchingProgress(run.totalExpenses, run.totalExpenses,
                                run.allMatches, TRUE))
          /\ run' = [run EXCEPT !.timerPending = FALSE]
  /\ UNCHANGED <<bookings, expenses, called, result>>

\* mutant of TimerFire: no timer is queued after a chunk
TimerFire_NoReschedule ==
  /\ run.timerPending
  /\ IF run.processedExpenses < run.totalExpenses
     THEN \E batchMatches \in
               {processExpenseBatch(run.filteredBookings, expenses,
                                    run.processedExpenses, BATCH_SIZE)} :
          LET processed == Min2(run.processedExpenses + BATCH_SIZE, run.totalExpenses)
              allMatches == run.allMatches \o batchMatches
          IN /\ reports' = Append(reports,
                  MatchingProgress(run.totalExpenses, processed, allMatches,
                                   processed >= run.totalExpenses))
             /\ run' = [run EXCEPT !.processedExpenses = processed,
                                   !.allMatches = allMatches,
                                   !.timerPending = FALSE]
     ELSE /\ reports' = Append(reports,
               MatchingProgress(run.totalExpenses, run.totalExpenses,
                                run.allMatches, TRUE))
          /\ run' = [run EXCEPT !.timerPending = FALSE]
  /\ UNCHANGED <<bookings, expenses, called, result>>

\* mutant of TimerFire: the matches of the chunk replace the matches
\* accumulated so far
TimerFire_KeepsLastBatchOnly ==
  /\ run.timerPending
  /\ IF run.processedExpenses < run.totalExpenses
     THEN \E batchMatches \in
               {processExpenseBatch(run.filteredBookings, expenses,
                                    run.processedExpenses, BATCH_SIZE)} :
          LET processed == Min2(run.processedExpenses + BATCH_SIZE, run.totalExpenses)
              allMatches == batchMatches
          IN /\ reports' = Append(reports,
                  MatchingProgress(run.totalExpenses, processed, allMatches,
                                   processed >= run.totalExpenses))
             /\ run' = [run EXCEPT !.processedExpenses = processed,
                                   !.allMatches = allMatches,
                                   !.timerPending = processed < run.totalExpenses]
     ELSE /\ reports' = Append(reports,
               MatchingProgress(run.totalExpenses, run.totalExpenses,
                                run.allMatches, TRUE))
          /\ run' = [run EXCEPT !.timerPending = FALSE]
  /\ UNCHANGED <<bookings, expenses, called, result>>

\* mutant of TimerFire: a timer that finds nothing to process reports
\* nothing
TimerFire_NoFinalReport ==
  /\ run.timerPending
  /\ IF run.processedExpenses < run.totalExpenses
     THEN \E batchMatches \in
               {processExpenseBatch(run.filteredBookings, expenses,
                                    run.processedExpenses, BATCH_SIZE)} :
          LET processed == Min2(run.processedExpenses + BATCH_SIZE, run.totalExpenses)
              allMatches == run.allMatches \o batchMatches
          IN /\ reports' = Append(reports,
                  MatchingProgress(run.totalExpenses, processed, allMatches,
                                   processed >= run.totalExpenses))
             /\ run' = [run EXCEPT !.processedExpenses = processed,
                                   !.allMatches = allMatches,
                                   !.timerPending = processed < run.totalExpenses]
     ELSE /\ reports' = reports
          /\ run' = [run EXCEPT !.timerPending = FALSE]
  /\ UNCHANGED <<bookings, expenses, called, result>>

\* mutant of TimerFire: the count of processed expenses is not clamped to
\* the total
TimerFire_NoClamp ==
  /\ run.timerPending
  /\ IF run.processedExpenses < run.totalExpenses
     THEN \E batchMatches \in
               {processExpenseBatch(run.filteredBookings, expenses,
                                    run.processedExpenses, BATCH_SIZE)} :
          LET processed == run.processedExpenses + BATCH_SIZE
              allMatches == run.allMatches \o batchMatches
          IN /\ reports' = Append(reports,
                  MatchingProgress(run.totalExpenses, processed, allMatches,
                                   processed >= run.totalExpenses))
             /\ run' = [run EXCEPT !.processedExpenses = processed,
                                   !.allMatches = allMatches,
                                   !.timerPending = processed < run.totalExpenses]
     ELSE /\ reports' = Append(reports,
               MatchingProgress(run.totalExpenses, run.totalExpenses,
                                run.allMatches, TRUE))
          /\ run' = [run EXCEPT !.timerPending = FALSE]
  /\ UNCHANGED <<bookings, expenses, called, result>>

\* the setTimeout callback of scheduleNextBatch
TimerFire ==
  /\ run.timerPending
  /\ IF run.processedExpenses < run.totalExpenses
     THEN \E batchMatches \in
               {processExpenseBatch(run.filteredBookings, expenses,
                                    run.processedExpenses, BATCH_SIZE)} :
          LET processed == Min2(run.processedExpenses + BATCH_SIZE, run.totalExpenses)
              allMatches == run.allMatches \o batchMatches
          IN /\ reports' = Append(reports,
                  MatchingProgress(run.totalExpenses, processed, allMatches,
                                   processed >= run.totalExpenses))
             /\ run' = [run EXCEPT !.processedExpenses = processed,
                                   !.allMatches = allMatches,
                                   !.timerPending = processed < run.totalExpenses]
     ELSE /\ reports' = Append(reports,
               MatchingProgress(run.totalExpenses, run.totalExpenses,
                                run.allMatches, TRUE))
          /\ run' = [run EXCEPT !.timerPending = FALSE]
  /\ UNCHANGED <<bookings, expenses, called, result>>

(***************************************************************************)
(* The one-shot procedures, explored on the lists of at most MaxExpenses    *)
(* expenses                                                                *)
(***************************************************************************)
CallMatchBookingsWithExpenses ==
  /\ called = "none"
  /\ ~run.started
  /\ Len(expenses) <= MaxExpenses
  /\ called' = "matchBookingsWithExpenses"
  /\ result' = matchBookingsWithExpenses(bookings, expenses)
  /\ UNCHANGED <<bookings, expenses, run, reports>>

\* mutant of CallFindMatches: the card type is fixed on the caller's records,
\* not on a copy
CallFindMatches_FixesInPlace ==
  /\ called = "none"
  /\ ~run.started
  /\ Len(expenses) <= MaxExpenses
  /\ called' = "findMatches"
  /\ result' = findMatches(bookings, expenses)
  /\ bookings' = [j \in 1..Len(bookings) |-> fixCardType(bookings[j])]
  /\ UNCHANGED <<expenses, run, reports>>

CallFindMatches ==
  /\ called = "none"
  /\ ~run.started
  /\ Len(expenses) <= MaxExpenses
  /\ called' = "findMatches"
  /\ result' = findMatches(bookings, expenses)
  /\ UNCHANGED <<bookings, expenses, run, reports>>

CallFindMatchesTMC ==
  /\ called = "none"
  /\ ~run.started
  /\ Len(expenses) <= MaxExpenses
  /\ called' = "findMatchesTMC"
  /\ result' = findMatchesTMC(bookings, expenses)
  /\ UNCHANGED <<bookings, expenses, run, reports>>

Next ==
  \/ StartMatchingProcess
  \/ TimerFire
  \/ CallMatchBookingsWithExpenses
  \/ CallFindMatches
  \/ CallFindMatchesTMC

Spec == Init /\ [][Next]_vars

\* the browser runs every queued timer
FairSpec == Spec /\ WF_vars(TimerFire)

(***************************************************************************)
(* The four scorers on one booking and one expense                         *)
(***************************************************************************)
\* the fields one criterion or another reads, blanked together
FieldGroups ==
  {"reference", "name", "amount", "card", "type", "vendor", "dates", "route",
   "currency"}

blankBooking(booking, group) ==
  CASE group = "reference" -> [booking EXCEPT !.bookingReference = ""]
    [] group = "name" -> [booking EXCEPT !.travelerName = "", !.travelerNameNormalized = "",
                                         !.cardHolderNameNormalized = ""]
    [] group = "amount" -> [booking EXCEPT !.amount = <<>>, !.amountNormalized = <<>>]
    [] group = "card" -> [booking EXCEPT !.cardLast4Normalized = ""]
    [] group = "type" -> [booking EXCEPT !.travelType = "", !.bookingTypeNormalized = ""]
    [] group = "vendor" -> [booking EXCEPT !.vendor = "", !.merchantNormalized = ""]
    [] group = "dates" -> [booking EXCEPT !.bookingDate = "", !.departureDate = "",
                                          !.returnDate = "",
                                          !.bookingExpectTxTimeNormalized = ""]
    [] group = "route" -> [booking EXCEPT !.origin = "", !.destination = ""]
    [] group = "currency" -> [booking EXCEPT !.currencyNormalized = ""]

blankExpense(expense, group) ==
  CASE group = "reference" -> [expense EXCEPT !.description = ""]
    [] group = "name" -> [expense EXCEPT !.employeeName = ""]
    [] group = "amount" -> [expense EXCEPT !.amount = <<>>]
    [] group = "card" -> [expense EXCEPT !.cardLast4Normalized = ""]
    [] group = "type" -> [expense EXCEPT !.expenseType = ""]
    [] group = "vendor" -> [expense EXCEPT !.vendor = ""]
    [] group = "dates" -> [expense EXCEPT !.expenseDate = "", !.startDate = "",
                                          !.endDate = ""]
    [] group = "route" -> [expense EXCEPT !.origin = "", !.destination = ""]
    [] group = "currency" -> [expense EXCEPT !.currency = ""]

\* dates no Date constructor parses, a refund, the placeholders of the parser,
\* the flight fixture filed under the Hotel category
OddBookings ==
  {EmptyBooking,
   [FlightBooking EXCEPT !.bookingTypeNormalized = "Hotel"],
   [FlightBooking EXCEPT !.bookingDate = "n/a", !.departureDate = "n/a",
                         !.returnDate = "n/a", !.bookingExpectTxTimeNormalized = "n/a"],
   [FlightBooking EXCEPT !.amount = <<-450>>, !.amountNormalized = <<-450>>],
   [FlightBooking EXCEPT !.travelerName = "Smith, John", !.vendor = "DELTA AIR"]}

OddExpenses ==
  {EmptyExpense,
   [FlightExpense EXCEPT !.expenseDate = "n/a"],
   [FlightExpense EXCEPT !.amount = <<-450>>],
   [FlightExpense EXCEPT !.cardLast4Normalized = "9999"],
   [FlightExpense EXCEPT !.cardLast4Normalized = NoCardLast4]}

ScoreBookingPool ==
  BookingPool \cup OddBookings
    \cup {blankBooking(FlightBooking, g) : g \in FieldGroups}

ScoreExpensePool ==
  ExpensePool \cup OddExpenses
    \cup {blankExpense(FlightExpense, g) : g \in FieldGroups}

InitScore ==
  /\ \E b \in ScoreBookingPool, e \in ScoreExpensePool :
       /\ bookings = <<b>>
       /\ expenses = <<e>>
  /\ run = NoRun
  /\ reports = <<>>
  /\ called = "none"
  /\ result = <<>>

Score(name, matchScore) ==
  /\ called = "none"
  /\ called' = name
  /\ result' = <<matchScore>>
  /\ UNCHANGED <<bookings, expenses, run, reports>>

CallCalculateMatchScore ==
  Score("calculateMatchScore", calculateMatchScore(bookings[1], expenses[1]))

CallCalculateGenericMatchScore ==
  Score("calculateGenericMatchScore", calculateGenericMatchScore(bookings[1], expenses[1]))

CallCalculateFlightMatchScore ==
  Score("calculateFlightMatchScore", calculateFlightMatchScore(bookings[1], expenses[1]))

CallSimpleCalculateMatchScore ==
  Score("simpleCalculateMatchScore", simpleCalculateMatchScore(bookings[1], expenses[1]))

NextScore ==
  \/ CallCalculateMatchScore
  \/ CallCalculateGenericMatchScore
  \/ CallCalculateFlightMatchScore
  \/ CallSimpleCalculateMatchScore

SpecScore == InitScore /\ [][NextScore]_vars

(***************************************************************************)
(* getUnmatchedBookings and getUnmatchedExpenses on a list of records and  *)
(* a list of matches.  Before the call result holds the match list that is *)
(* passed; after it, that list and the records returned.                   *)
(***************************************************************************)
MaxMatches == 2

\* the ids a match may carry: a position-based id, an id the parser or a
\* fixture wrote, the id every record shares, an id no record has
MatchIdPairs ==
  { <<"booking-0", "expense-0">>, <<"booking-1", "expense-1">>,
    <<"booking-x", "expense-x">>, <<"booking-9", "expense-9">> }

MatchList(pairs) ==
  [k \in 1..Len(pairs) |->
     [expenseId |-> pairs[k][2], bookingId |-> pairs[k][1],
      matchConfidence |-> 90, matchReason |-> <<"Test match">>]]

InitUnmatched ==
  /\ \E choice \in SeqsUpTo({FlightBooking, HotelBooking}, MaxBookings),
        n \in 0..MaxExpenses, mode \in IdModes,
        pairs \in SeqsUpTo(MatchIdPairs, MaxMatches) :
       /\ bookings = BookingList(choice, mode)
       /\ expenses = ExpenseList(<<FlightExpense>>, n, mode)
       /\ result = MatchList(pairs)
  /\ run = NoRun
  /\ reports = <<>>
  /\ called = "none"

CallGetUnmatchedBookings ==
  /\ called = "none"
  /\ called' = "getUnmatchedBookings"
  /\ result' = [matches |-> result, unmatched |-> getUnmatchedBookings(bookings, result)]
  /\ UNCHANGED <<bookings, expenses, run, reports>>

CallGetUnmatchedExpenses ==
  /\ called = "none"
  /\ called' = "getUnmatchedExpenses"
  /\ result' = [matches |-> result, unmatched |-> getUnmatchedExpenses(expenses, result)]
  /\ UNCHANGED <<bookings, expenses, run, reports>>

NextUnmatched ==
  \/ CallGetUnmatchedBookings
  \/ CallGetUnmatchedExpenses

SpecUnmatched == InitUnmatched /\ [][NextUnmatched]_vars

(***************************************************************************)
(* FlightMatcher.matchFlightRoute on one booking and one expense whose     *)
(* route fields are drawn from a few airport names                         *)
(***************************************************************************)
\* absent, the fixture's airports, a misspelt one, one that shares no letter
\* with them, one written with a suffix
RouteNames == {"", "SFO", "SJO", "JFK", "LAX", "JFK Airport"}

InitRoute ==
  /\ \E bookingOrigin \in RouteNames, bookingDest \in RouteNames,
        expenseOrigin \in RouteNames, expenseDest \in RouteNames :
       /\ bookings = <<[FlightBooking EXCEPT !.origin = bookingOrigin,
                                             !.destination = bookingDest]>>
       /\ expenses = <<[FlightExpense EXCEPT !.origin = expenseOrigin,
                                             !.destination = expenseDest]>>
  /\ run = NoRun
  /\ reports = <<>>
  /\ called = "none"
  /\ result = <<>>

CallMatchFlightRoute ==
  Score("matchFlightRoute", matchFlightRoute(bookings[1], expenses[1]))

NextRoute == CallMatchFlightRoute

SpecRoute == InitRoute /\ [][NextRoute]_vars

(***************************************************************************)
(* FlightMatcher.extractCarrierCode on the description of one expense,     *)
(* the description put together from a few pieces of text                  *)
(***************************************************************************)
MaxPieces == 3

\* a carrier code, a single capital, a lower-case word, digits, a blank, a
\* dash
TextPieces == {"AA", "D", "to", "1234", " ", "-"}

RECURSIVE concat(_)
concat(pieces) == IF pieces = <<>> THEN "" ELSE Head(pieces) \o concat(Tail(pieces))

InitCarrier ==
  /\ \E pieces \in SeqsUpTo(TextPieces, MaxPieces) :
       expenses = <<[FlightExpense EXCEPT !.description = concat(pieces)]>>
  /\ bookings = <<>>
  /\ run = NoRun
  /\ reports = <<>>
  /\ called = "none"
  /\ result = <<>>

CallExtractCarrierCode ==
  Score("extractCarrierCode", extractCarrierCode(expenses[1].description))

NextCarrier == CallExtractCarrierCode

SpecCarrier == InitCarrier /\ [][NextCarrier]_vars

(***************************************************************************)
(* fuzzyStringMatch of MatchingService and of FlightMatcher on the vendor  *)
(* of one booking and of one expense                                       *)
(***************************************************************************)
\* absent, blank, punctuation only, names that are equal or contained in one
\* another after normalization, names that are not
VendorStrings ==
  {"", " ", "-", "N/A.", "--", "Delta", "delta!", "Delta Air", "United", "Marriott"}

InitFuzzy ==
  /\ \E str1 \in VendorStrings, str2 \in VendorStrings :
       /\ bookings = <<[FlightBooking EXCEPT !.vendor = str1]>>
       /\ expenses = <<[FlightExpense EXCEPT !.vendor = str2]>>
  /\ run = NoRun
  /\ reports = <<>>
  /\ called = "none"
  /\ result = <<>>

CallFuzzyStringMatch ==
  Score("fuzzyStringMatch", fuzzyStringMatch(bookings[1].vendor, expenses[1].vendor))

CallFlightFuzzyStringMatch ==
  Score("flightFuzzyStringMatch",
        flightFuzzyStringMatch(bookings[1].vendor, expenses[1].vendor))

NextFuzzy ==
  \/ CallFuzzyStringMatch
  \/ CallFlightFuzzyStringMatch

SpecFuzzy == InitFuzzy /\ [][NextFuzzy]_vars

(***************************************************************************)
(* Two startMatchingProcess calls in flight at once.  Every variable holds *)
(* a pair: the arguments, the closure and the reports of call 1 and of     *)
(* call 2.  The timers of the two calls fire in any order.                 *)
(***************************************************************************)
Runs == {1, 2}

\* the lists one of the two calls is given: few or no bookings, and expenses
\* for no, one, two or three chunks
RunBookings ==
  {<<>>, <<FlightBooking>>, <<HotelBooking, FlightBooking>>}
RunExpenses ==
  {ExpenseList(template, n, "absent") :
     template \in {<<FlightExpense>>, <<HotelExpense, FlightExpense>>},
     n \in {0, 2, BATCH_SIZE + 1, 2 * BATCH_SIZE + 1}}

InitTwoRuns ==
  /\ bookings \in [Runs -> RunBookings]
  /\ expenses \in [Runs -> RunExpenses]
  /\ run = [r \in Runs |-> NoRun]
  /\ reports = [r \in Runs |-> <<>>]
  /\ called = "none"
  /\ result = <<>>

\* call r: its own filteredBookings, processedExpenses, allMatches
StartRun(r) ==
  /\ ~run[r].started
  /\ run' = [run EXCEPT ![r] =
               [started |-> TRUE, timerPending |-> TRUE,
                filteredBookings |-> filterBookings(bookings[r]),
                processedExpenses |-> 0, allMatches |-> <<>>,
                totalExpenses |-> Len(expenses[r])]]
  /\ UNCHANGED <<bookings, expenses, reports, called, result>>

\* the setTimeout callback on the variables of the closure it was created
\* in: the closure after it and the progress object it hands to onProgress
afterTimer(closure, expenseList) ==
  IF closure.processedExpenses < closure.totalExpenses
  THEN Once(processExpenseBatch(closure.filteredBookings, expenseList,
                                closure.processedExpenses, BATCH_SIZE),
            LAMBDA batchMatches :
         LET processed == Min2(closure.processedExpenses + BATCH_SIZE,
                               closure.totalExpenses)
             allMatches == closure.allMatches \o batchMatches
         IN [closure |-> [closure EXCEPT !.processedExpenses = processed,
                                         !.allMatches = allMatches,
                                         !.timerPending = processed < closure.totalExpenses],
             progress |-> MatchingProgress(closure.totalExpenses, processed, allMatches,
                                           processed >= closure.totalExpenses)])
  ELSE [closure |-> [closure EXCEPT !.timerPending = FALSE],
        progress |-> MatchingProgress(closure.totalExpenses, closure.totalExpenses,
                                      closure.allMatches, TRUE)]

\* mutant of TimerFireOf: processedExpenses and allMatches are variables of
\* the module, shared by all calls (kept in the closure of call 1)
TimerFireOf_SharedCounters(r) ==
  /\ run[r].timerPending
  /\ LET shared == [run[r] EXCEPT !.processedExpenses = run[1].processedExpenses,
                                  !.allMatches = run[1].allMatches]
         after == afterTimer(shared, expenses[r])
     IN /\ run' = [q \in Runs |->
                     IF q = r THEN after.closure
                     ELSE [run[q] EXCEPT
                             !.processedExpenses = after.closure.processedExpenses,
                             !.allMatches = after.closure.allMatches]]
        /\ reports' = [reports EXCEPT ![r] = Append(@, after.progress)]
  /\ UNCHANGED <<bookings, expenses, called, result>>

\* a timer of call r fires
TimerFireOf(r) ==
  /\ run[r].timerPending
  /\ LET after == afterTimer(run[r], expenses[r])
     IN /\ run' = [run EXCEPT ![r] = after.closure]
        /\ reports' = [reports EXCEPT ![r] = Append(@, after.progress)]
  /\ UNCHANGED <<bookings, expenses, called, result>>

NextTwoRuns ==
  \/ \E r \in Runs : StartRun(r)
  \/ \E r \in Runs : TimerFireOf(r)

SpecTwoRuns == InitTwoRuns /\ [][NextTwoRuns]_vars

(***************************************************************************)
(* getMatchStatistics on the inputs and the match list of an assignment    *)
(* run: after matchBookingsWithExpenses or findMatches has returned, or    *)
(* after the last report of startMatchingProcess.  After the call result   *)
(* holds the match list passed and the statistics returned.                *)
(***************************************************************************)
InitStatistics ==
  /\ Init
  /\ Len(expenses) <= MaxExpenses

CallGetMatchStatistics ==
  /\ \/ called \in {"matchBookingsWithExpenses", "findMatches"}
     \/ called = "none" /\ run.started /\ ~run.timerPending
  /\ LET matches == IF called = "none" THEN reports[Len(reports)].matches ELSE result
     IN result' = [matches |-> matches,
                   statistics |-> getMatchStatistics(bookings, expenses, matches)]
  /\ called' = "getMatchStatistics"
  /\ UNCHANGED <<bookings, expenses, run, reports>>

NextStatistics ==
  \/ StartMatchingProcess
  \/ TimerFire
  \/ CallMatchBookingsWithExpenses
  \/ CallFindMatches
  \/ CallGetMatchStatistics

SpecStatistics == InitStatistics /\ [][NextStatistics]_vars

(***************************************************************************)
(* Both findMatches on lists that also hold records without card digits    *)
(***************************************************************************)
InitCards ==
  /\ \E choice \in SeqsUpTo(BookingPool \cup CardlessBookings, MaxBookings),
        template \in SeqsUpTo({FlightExpense, PartialFlightExpense, HotelExpense}
                                \cup CardlessExpenses, MaxTemplate) \ {<<>>},
        n \in 0..MaxExpenses, mode \in IdModes :
       /\ bookings = BookingList(choice, mode)
       /\ expenses = ExpenseList(template, n, mode)
  /\ run = NoRun
  /\ reports = <<>>
  /\ called = "none"
  /\ result = <<>>

NextCards ==
  \/ CallFindMatches
  \/ CallFindMatchesTMC

SpecCards == InitCards /\ [][NextCards]_vars

(***************************************************************************)
(* The amount comparisons and the two generic scorers on the flight        *)
(* fixtures with varied amounts                                            *)
(***************************************************************************)
MaxAmount == 10

\* every small amount, refunds and zero included, and amounts around 100
\* that fall in each band of the comparisons
AmountValues ==
  (-MaxAmount..MaxAmount)
    \cup {50, 53, 100, 101, 104, 108, 114, 120, 200}
    \cup {-50, -100, -101, -114, -200}

AmountFields == {<<>>} \cup {<<v>> : v \in AmountValues}

InitAmount ==
  /\ \E x \in AmountFields, y \in AmountFields :
       /\ bookings = <<[FlightBooking EXCEPT !.amount = x, !.amountNormalized = x]>>
       /\ expenses = <<[FlightExpense EXCEPT !.amount = y]>>
  /\ run = NoRun
  /\ reports = <<>>
  /\ called = "none"
  /\ result = <<>>

\* fuzzyAmountMatch takes numbers: its caller has checked both fields
CallFuzzyAmountMatch ==
  /\ bookings[1].amount # <<>> /\ expenses[1].amount # <<>>
  /\ Score("fuzzyAmountMatch",
           fuzzyAmountMatch(bookings[1].amount[1], expenses[1].amount[1]))

CallFuzzyFlightAmountMatch ==
  Score("fuzzyFlightAmountMatch",
        fuzzyFlightAmountMatch(bookings[1].amount, expenses[1].amount))

CallAmountMatches ==
  Score("amountMatches", amountMatches(bookings[1], expenses[1]))

NextAmount ==
  \/ CallCalculateMatchScore
  \/ CallCalculateGenericMatchScore
  \/ CallFuzzyAmountMatch
  \/ CallFuzzyFlightAmountMatch
  \/ CallAmountMatches

SpecAmount == InitAmount /\ [][NextAmount]_vars

(***************************************************************************)
(* normalizeString of MatchingService, FlightMatcher and                   *)
(* SimpleFlightMatcher on the description of one expense, the description  *)
(* put together from pieces of text                                        *)
(***************************************************************************)
InitNormalize ==
  /\ \E pieces \in SeqsUpTo(TextPieces, MaxPieces) :
       expenses = <<[FlightExpense EXCEPT !.description = concat(pieces)]>>
  /\ bookings = <<>>
  /\ run = NoRun
  /\ reports = <<>>
  /\ called = "none"
  /\ result = <<>>

CallNormalizeString ==
  Score("normalizeString", normalizeString(expenses[1].description))

CallFlightNormalizeString ==
  Score("flightNormalizeString", flightNormalizeString(expenses[1].description))

CallSimpleNormalizeString ==
  Score("simpleNormalizeString", simpleNormalizeString(expenses[1].description))

NextNormalize ==
  \/ CallNormalizeString
  \/ CallFlightNormalizeString
  \/ CallSimpleNormalizeString

SpecNormalize == InitNormalize /\ [][NextNormalize]_vars

(***************************************************************************)
(* Vocabulary of the properties                                            *)
(***************************************************************************)
NoRepeat(seq) == \A i, j \in 1..Len(seq) : i # j => seq[i] # seq[j]

expenseIdsOf(list) == [i \in 1..Len(list) |-> idOr(list[i], "expense-", i - 1)]
bookingIdsOf(list) == [j \in 1..Len(list) |-> idOr(list[j], "booking-", j - 1)]

\* the identifiers the procedures see are pairwise distinct
DistinctIds == NoRepeat(bookingIdsOf(bookings)) /\ NoRepeat(expenseIdsOf(expenses))

\* the run has been started and no timer of it is queued
Finished == run.started /\ ~run.timerPending
FinalReport == reports[Len(reports)]
Chunks(n) == (n + BATCH_SIZE - 1) \div BATCH_SIZE
IsPrefix(a, b) == Len(a) <= Len(b) /\ SubSeq(b, 1, Len(a)) = a
Known(cardLast4) == cardLast4 # "" /\ cardLast4 # NoCardLast4

(***************************************************************************)
(* C1                                                                      *)
(***************************************************************************)
\* C1: for inputs with pairwise distinct identifiers, the list returned by
\* matchBookingsWithExpenses, and the list of the final progress report of a
\* startMatchingProcess run, hold no bookingId twice and no expenseId twice.
C1_AtMostOnePerRun ==
  /\ (called = "matchBookingsWithExpenses" /\ DistinctIds)
       => /\ NoRepeat(matchedBookingIds(result))
          /\ NoRepeat(matchedExpenseIds(result))
  /\ (Finished /\ DistinctIds)
       => /\ NoRepeat(matchedBookingIds(FinalReport.matches))
          /\ NoRepeat(matchedExpenseIds(FinalReport.matches))

(***************************************************************************)
(* C2                                                                      *)
(***************************************************************************)
FindMatchesCalled == called \in {"findMatches", "findMatchesTMC"}

\* what findMatches has matched before it comes to the k-th flight booking
matchedBefore(k) ==
  simpleMatchFrom(SubSeq(filterFlightBookings(bookings), 1, k - 1), expenses, 1,
                  <<>>, {}, called = "findMatchesTMC")

\* the expenses findMatches scores for the k-th flight booking
offeredTo(k) ==
  LET booking == filterFlightBookings(bookings)[k]
  IN IF Known(booking.cardLast4Normalized)
     THEN simpleCandidates(booking, expenses,
                           Range(matchedExpenseIds(matchedBefore(k))),
                           called = "findMatchesTMC")
     ELSE <<>>

AllAtLeast(matches, minimum) ==
  \A k \in 1..Len(matches) : matches[k].matchConfidence >= minimum

\* C3: every MatchResult has a confidence of at least the minimum of its call
\* site (0.15 in startMatchingProcess, 0.30 in matchBookingsWithExpenses and
\* in findMatches), and a driving record all of whose candidates score below
\* that minimum has no MatchResult.
C3_MinimumConfidence ==
  /\ \A r \in 1..Len(reports) : AllAtLeast(reports[r].matches, MINIMUM_CONFIDENCE)
  /\ called = "matchBookingsWithExpenses"
       => AllAtLeast(result, MINIMUM_CONFIDENCE_MATCHING)
  /\ FindMatchesCalled => AllAtLeast(result, MINIMUM_CONFIDENCE_SIMPLE)
  /\ (called = "matchBookingsWithExpenses" /\ DistinctIds)
       => \A i \in 1..Len(expenses) :
            (\A j \in 1..Len(bookings) :
               scoreIn(MatchScoreTable, bookings[j], expenses[i]).score
                 < MINIMUM_CONFIDENCE_MATCHING)
            => expenseIdsOf(expenses)[i] \notin Range(matchedExpenseIds(result))
  /\ (Finished /\ DistinctIds)
       => \A i \in 1..Len(expenses) :
            (\A j \in 1..Len(run.filteredBookings) :
               scoreIn(BatchScoreTable, run.filteredBookings[j], expenses[i]).score
                 < MINIMUM_CONFIDENCE)
            => expenseIdsOf(expenses)[i]
                 \notin Range(matchedExpenseIds(FinalReport.matches))
  /\ (FindMatchesCalled /\ DistinctIds)
       => LET flightBookings == filterFlightBookings(bookings)
          IN \A k \in 1..Len(flightBookings) :
               (\A i \in 1..Len(expenses) :
                  scoreIn(SimpleScoreTable, flightBookings[k], expenses[i]).score
                    < MINIMUM_CONFIDENCE_SIMPLE)
               => bookingIdsOf(flightBookings)[k] \notin Range(matchedBookingIds(result))

\* a finished batch run that matched some expenses and left others, scored
\* below the minimum by every booking, unmatched
C3_Witness ==
  /\ Finished /\ DistinctIds
  /\ Len(run.filteredBookings) > 0
  /\ Len(FinalReport.matches) > 0
  /\ Len(FinalReport.matches) < Len(expenses)

(***************************************************************************)
(* C7                                                                      *)
(***************************************************************************)
\* C7 as stated: in a run over n expenses the progress callback is invoked
\* once after each of the ceil(n/50) chunks and once more, finally, with
\* isComplete = true.
C7_OncePerChunkAndOnceFinally ==
  Finished => /\ Len(reports) = Chunks(run.totalExpenses) + 1
              /\ FinalReport.isComplete

\* C7 as amended: the callback is invoked once after each of the ceil(n/50)
\* chunks, the call after chunk r reporting min(50 r, n) processed expenses
\* and the call after the last chunk carrying isComplete = true; only a run
\* over no expenses, which has no chunk, makes one call of its own with
\* isComplete = true.
C7_OncePerChunk ==
  /\ run.started =>
       /\ Len(reports) =
            IF Finished /\ run.totalExpenses = 0 THEN 1
            ELSE Chunks(run.processedExpenses)
       /\ \A r \in 1..Len(reports) :
            /\ reports[r].processedExpenses = Min2(r * BATCH_SIZE, run.totalExpenses)
            /\ reports[r].isComplete <=> (r >= Chunks(run.totalExpenses))
  /\ Finished => /\ Len(reports) = Max2(1, Chunks(run.totalExpenses))
                 /\ FinalReport.isComplete

\* a finished run of three chunks, the last one partial
C7_Witness ==
  /\ Finished
  /\ run.totalExpenses = 2 * BATCH_SIZE + 1
  /\ Len(reports) = 3

(***************************************************************************)
(* C8                                                                      *)
(***************************************************************************)
Completed ==
  /\ Finished
  /\ Len(reports) > 0
  /\ FinalReport.isComplete
  /\ FinalReport.processedExpenses = FinalReport.totalExpenses
  /\ FinalReport.totalExpenses = Len(expenses)

\* C8: while queued timers keep firing, a started run leads to a call of
\* onProgress with isComplete = true and processedExpenses = totalExpenses;
\* the call that carries isComplete = true is the only one and the last one,
\* no timer of the run is queued after it, and nothing of the run changes
\* any more.
C8_RunsToCompletion ==
  /\ run.started ~> Completed
  /\ [](\A r \in 1..Len(reports) :
          reports[r].isComplete => (r = Len(reports) /\ ~run.timerPending))
  /\ [][Completed => (run' = run /\ reports' = reports)]_vars

\* a run of several chunks has completed
C8_Witness ==
  /\ Completed
  /\ Len(reports) >= 2
  /\ ~reports[1].isComplete

(***************************************************************************)
(* C9                                                                      *)
(***************************************************************************)
\* the matches follow the order of the expenses processed so far: their
\* expense ids are the ids of those expenses, in order, less the unmatched
InExpenseOrder(matches, processed) ==
  matchedExpenseIds(matches)
    = SelectSeq(SubSeq(expenseIdsOf(expenses), 1, processed),
                LAMBDA id : id \in Range(matchedExpenseIds(matches)))

\* C9: the MatchResults of every progress report are in increasing order of
\* expense index (ids pairwise distinct), and the matches of each report are
\* a prefix of the matches of the next.
C9_AppendOnlyInOrder ==
  /\ (Len(reports) > 0 /\ NoRepeat(expenseIdsOf(expenses)))
       => InExpenseOrder(FinalReport.matches, FinalReport.processedExpenses)
  /\ \A r \in 1..(Len(reports) - 1) :
       IsPrefix(reports[r].matches, reports[r + 1].matches)

\* three reports, each with more matches than the one before, and expenses
\* left unmatched in between
C9_Witness ==
  /\ Len(reports) = 3
  /\ NoRepeat(expenseIdsOf(expenses))
  /\ 0 < Len(reports[1].matches)
  /\ Len(reports[1].matches) < Len(reports[2].matches)
  /\ Len(reports[2].matches) < Len(reports[3].matches)
  /\ Len(reports[3].matches) < reports[3].processedExpenses

(***************************************************************************)
(* C10                                                                     *)
(***************************************************************************)
\* C10: with no expenses, or with no bookings (none left by the up-front
\* filter of the procedure), matchBookingsWithExpenses, findMatches and
\* startMatchingProcess yield an empty match list, and a startMatchingProcess
\* run that has no timer queued has reported isComplete = true.
C10_EmptyInputs ==
  /\ (called = "matchBookingsWithExpenses" /\ (bookings = <<>> \/ expenses = <<>>))
       => result = <<>>
  /\ (FindMatchesCalled /\ (filterFlightBookings(bookings) = <<>> \/ expenses = <<>>))
       => result = <<>>
  /\ (run.started /\ (filterBookings(bookings) = <<>> \/ expenses = <<>>))
       => /\ run.allMatches = <<>>
          /\ \A r \in 1..Len(reports) : reports[r].matches = <<>>
          /\ Finished => (Len(reports) > 0 /\ FinalReport.isComplete)

\* a run over bookings and no expenses has made its one report
C10_Witness ==
  /\ Finished
  /\ expenses = <<>>
  /\ bookings # <<>>
  /\ Len(reports) = 1
  /\ FinalReport.isComplete
  /\ FinalReport.matches = <<>>

(***************************************************************************)
(* C4                                                                      *)
(***************************************************************************)
\* C4: whichever of the four scorers is called on a booking and an expense,
\* the score returned is between 0 and 1 (0 and 100 hundredths), and the
\* accumulated total is neither negative nor above the accumulated
\* maximum-possible total.
C4_ScoreInUnitInterval ==
  called # "none"
    => /\ result[1].score >= 0
       /\ result[1].score <= 100
       /\ result[1].totalScore[1] >= 0
       /\ result[1].totalScore[1] <= result[1].maxPossibleScore * result[1].totalScore[2]

\* calculateMatchScore with all nine criteria applicable and every one of
\* them at its full weight
C4_Witness ==
  /\ called = "calculateMatchScore"
  /\ result[1].maxPossibleScore = 110
  /\ result[1].score = 100

(***************************************************************************)
(* C5                                                                      *)
(***************************************************************************)
NoParseableDate(dates) == \A k \in 1..Len(dates) : ~IsValidDate(dates[k])

\* the field criterion c of calculateMatchScore needs is absent on a side
\* (for the dates: no date of a side is present and parseable)
matchFieldAbsent(c, booking, expense) ==
  CASE c = 1 -> booking.bookingReference = "" \/ expense.description = ""
    [] c = 2 -> booking.travelerName = "" \/ expense.employeeName = ""
    [] c = 3 -> booking.amount = <<>> \/ expense.amount = <<>>
    [] c = 4 -> booking.cardLast4Normalized = "" \/ expense.cardLast4Normalized = ""
    [] c = 5 -> booking.travelType = "" \/ expense.expenseType = ""
    [] c = 6 -> booking.vendor = "" \/ expense.vendor = ""
    [] c = 7 -> \/ NoParseableDate(<<booking.bookingDate, booking.departureDate,
                                     booking.returnDate>>)
                \/ NoParseableDate(<<expense.expenseDate, expense.startDate,
                                     expense.endDate>>)
    [] c = 8 -> booking.origin = "" \/ expense.origin = ""
    [] c = 9 -> booking.destination = "" \/ expense.destination = ""

\* the same for criterion c of calculateFlightMatchScore
flightFieldAbsent(c, booking, expense) ==
  CASE c = 1 -> booking.bookingReference = "" \/ expense.description = ""
    [] c = 2 -> booking.bookingReference = "" \/ expense.description = ""
    [] c = 3 -> /\ booking.origin = "" \/ expense.origin = ""
                /\ booking.destination = "" \/ expense.destination = ""
    [] c = 4 -> booking.travelerNameNormalized = "" \/ expense.employeeName = ""
    [] c = 5 -> booking.amountNormalized = <<>> \/ expense.amount = <<>>
    [] c = 6 -> booking.cardLast4Normalized = "" \/ expense.cardLast4Normalized = ""
    [] c = 7 -> booking.cardHolderNameNormalized = "" \/ expense.employeeName = ""
    [] c = 8 -> booking.merchantNormalized = "" \/ expense.vendor = ""
    [] c = 9 -> booking.currencyNormalized = "" \/ expense.currency = ""
    [] c = 10 -> \/ ~IsValidDate(booking.bookingExpectTxTimeNormalized)
                 \/ ~IsValidDate(expense.expenseDate)

Without(criteria, c) == SubSeq(criteria, 1, c - 1) \o SubSeq(criteria, c + 1, Len(criteria))

\* C5: in calculateMatchScore and in calculateFlightMatchScore a criterion
\* whose field is absent on either side (for the dates: absent or
\* unparseable) adds nothing to the total, nothing to the maximum-possible
\* total and no reason, and the score returned is the score of the pair
\* evaluated without that criterion.
C5_MissingFieldNeutral ==
  /\ called = "calculateMatchScore"
       => LET criteria == matchScoreCriteria(bookings[1], expenses[1])
          IN \A c \in 1..Len(criteria) :
               matchFieldAbsent(c, bookings[1], expenses[1])
                 => /\ criteria[c] = Skipped
                    /\ result[1].score
                         = NormalizedResult(Accumulate(Without(criteria, c))).score
  /\ called = "calculateFlightMatchScore"
       => LET criteria == flightCriteria(bookings[1], expenses[1])
          IN \A c \in 1..Len(criteria) :
               flightFieldAbsent(c, bookings[1], expenses[1])
                 => /\ criteria[c] = Skipped
                    /\ result[1].score
                         = FlightResult(bookings[1],
                                        Accumulate(Without(criteria, c))).score

(***************************************************************************)
(* C6                                                                      *)
(***************************************************************************)
\* C6: when the card last 4 of the booking and of the expense are both known
\* and differ, SimpleFlightMatcher.calculateMatchScore returns the score 0
\* and no reason, whatever the merchants and the amounts.
C6_CardGate ==
  (/\ called = "simpleCalculateMatchScore"
   /\ Known(bookings[1].cardLast4Normalized)
   /\ Known(expenses[1].cardLast4Normalized)
   /\ bookings[1].cardLast4Normalized # expenses[1].cardLast4Normalized)
    => /\ result[1].score = 0
       /\ result[1].reasons = <<>>

\* the cards are known and differ while the merchants and the amounts match
C6_Witness ==
  /\ called = "simpleCalculateMatchScore"
  /\ Known(bookings[1].cardLast4Normalized)
  /\ Known(expenses[1].cardLast4Normalized)
  /\ bookings[1].cardLast4Normalized # expenses[1].cardLast4Normalized
  /\ merchantMatches(bookings[1], expenses[1])
  /\ amountMatches(bookings[1], expenses[1]) = FOne
  /\ result[1].score = 0

(***************************************************************************)
(* C11.  getUnmatchedBookings returns, in input order, exactly the         *)
(* bookings whose id (or position-based fallback id) is the bookingId of   *)
(* no match, and getUnmatchedExpenses exactly the expenses whose id is the *)
(* expenseId of no match; the records returned and the records matched     *)
(* partition the input.                                                    *)
(***************************************************************************)
\* the k-th smallest element of a finite set of numbers
Nth(numbers, k) == CHOOSE m \in numbers : Cardinality({o \in numbers : o < m}) = k - 1

\* returned is the records at the positions whose id is not in matchedIds,
\* in input order, and these positions and the matched ones split the input
ExactlyUnmatched(returned, records, ids, matchedIds) ==
  LET kept == {p \in 1..Len(records) : ids[p] \notin matchedIds}
      dropped == {p \in 1..Len(records) : \E m \in matchedIds : ids[p] = m}
  IN /\ Len(returned) = Cardinality(kept)
     /\ \A k \in 1..Len(returned) : returned[k] = records[Nth(kept, k)]
     /\ kept \cap dropped = {}
     /\ Cardinality(kept) + Cardinality(dropped) = Len(records)

C11_UnmatchedPartition ==
  /\ called = "getUnmatchedBookings" =>
       ExactlyUnmatched(result.unmatched, bookings, bookingIdsOf(bookings),
                        Range(matchedBookingIds(result.matches)))
  /\ called = "getUnmatchedExpenses" =>
       ExactlyUnmatched(result.unmatched, expenses, expenseIdsOf(expenses),
                        Range(matchedExpenseIds(result.matches)))

\* two bookings without ids, the second is matched through its position
C11_Witness ==
  /\ called = "getUnmatchedBookings"
  /\ Len(bookings) = 2
  /\ bookings[1].id = "" /\ bookings[2].id = ""
  /\ "booking-1" \in Range(matchedBookingIds(result.matches))
  /\ result.unmatched = <<bookings[1]>>

(***************************************************************************)
(* C12.  matchBookingsWithExpenses filters out the bookings that are not   *)
(* Mastercard bookings: no MatchResult it returns carries the bookingId of *)
(* a booking whose cardTypeNormalized is another card type (Visa, Amex).   *)
(***************************************************************************)
OtherCardTypes == {"Visa", "Amex"}

C12_OnlyMastercardBookings ==
  called = "matchBookingsWithExpenses" =>
    \A k \in 1..Len(result) : \A j \in 1..Len(bookings) :
      bookingIdsOf(bookings)[j] = result[k].bookingId =>
        bookings[j].cardTypeNormalized \notin OtherCardTypes

(***************************************************************************)
(* C13.  In a startMatchingProcess run the bookings are filtered by        *)
(* card-type validity once, before the first chunk: at every moment of the *)
(* run the list the chunks are scored against is the caller's bookings     *)
(* that pass the filter (card type Mastercard, or a recognized card type   *)
(* together with known card digits), and every MatchResult of every report *)
(* carries the id of a booking of that list.                               *)
(***************************************************************************)
PassesCardFilter(booking) ==
  \/ toLowerCase(booking.cardTypeNormalized) = "mastercard"
  \/ /\ booking.cardTypeNormalized \notin {"", "[No card type found]"}
     /\ Known(booking.cardLast4Normalized)

C13_FilteredOnce ==
  run.started =>
    /\ run.filteredBookings = SelectSeq(bookings, PassesCardFilter)
    /\ LET admittedIds ==
             {bookingIdsOf(run.filteredBookings)[j] :
                j \in {p \in 1..Len(run.filteredBookings) :
                         PassesCardFilter(run.filteredBookings[p])}}
       IN \A r \in 1..Len(reports) :
            Range(matchedBookingIds(reports[r].matches)) \subseteq admittedIds

\* two chunks were scored, a booking was filtered out, and both reports carry
\* matches
C13_Witness ==
  /\ Len(reports) = 2
  /\ Len(run.filteredBookings) < Len(bookings)
  /\ Len(reports[1].matches) > 0
  /\ Len(reports[2].matches) > Len(reports[1].matches)

(***************************************************************************)
(* C14.  For a booking that is not a flight booking (its                   *)
(* bookingTypeNormalized is a category other than Flight, such as Hotel)   *)
(* calculateFlightMatchScore returns score 0 and a list of reasons that    *)
(* contains 'Not a flight booking'.                                        *)
(***************************************************************************)
NonFlightCategory(booking) ==
  /\ booking.bookingTypeNormalized # ""
  /\ toLowerCase(booking.bookingTypeNormalized) # "flight"

C14_NonFlightRejected ==
  (called = "calculateFlightMatchScore" /\ NonFlightCategory(bookings[1])) =>
    /\ result[1].score = 0
    /\ "Not a flight booking" \in Range(result[1].reasons)

(***************************************************************************)
(* C15.  A booking that fails the flight heuristic (category not Flight,   *)
(* travel type mentions neither flight nor air, merchant and vendor carry  *)
(* no airline keyword, origin and destination not both present) is still   *)
(* scored over the applicable criteria: calculateFlightMatchScore returns  *)
(* the weighted score multiplied by 0.7, rounded to two decimals, and      *)
(* keeps the reasons.  A booking that passes the heuristic gets the        *)
(* weighted score without penalty.                                         *)
(***************************************************************************)
MentionsAny(str, words) == \E w \in words : includes(toLowerCase(str), w)

FailsFlightHeuristic(booking) ==
  /\ toLowerCase(booking.bookingTypeNormalized) # "flight"
  /\ ~MentionsAny(booking.travelType, {"flight", "air"})
  /\ ~MentionsAny(booking.merchantNormalized,
                  {"airline", "airways", "delta", "united", "american"})
  /\ ~MentionsAny(booking.vendor, {"airline", "airways"})
  /\ ~(booking.origin # "" /\ booking.destination # "")

Comparable(bookingLeg, expenseLeg) == bookingLeg # "" /\ expenseLeg # ""

Average(a, b) == Frac(a[1] * b[2] + b[1] * a[2], 2 * a[2] * b[2])

C16_RouteScore ==
  called = "matchFlightRoute" =>
    LET b == bookings[1]
        e == expenses[1]
        originOk == Comparable(b.origin, e.origin)
        destOk == Comparable(b.destination, e.destination)
        originSim == flightFuzzyStringMatch(b.origin, e.origin)
        destSim == flightFuzzyStringMatch(b.destination, e.destination)
    IN /\ (originOk /\ destOk) => result[1].score = Average(originSim, destSim)
       /\ (originOk /\ ~destOk) => result[1].score = FScale(8, Frac(originSim[1], 10 * originSim[2]))
       /\ (~originOk /\ destOk) => result[1].score = FScale(8, Frac(destSim[1], 10 * destSim[2]))
       /\ (~originOk /\ ~destOk) => result[1].score = FZero /\ result[1].reason = ""
       /\ includes(result[1].reason, "Origin match") => FGreater(originSim, 7, 10)
       /\ includes(result[1].reason, "Destination match") => FGreater(destSim, 7, 10)

(***************************************************************************)
(* C17.  extractCarrierCode returns the two-letter code for every text     *)
(* that contains two uppercase letters followed by optional whitespace and *)
(* then digits, whether or not whitespace separates the letters from the   *)
(* digits ('AA 1234' and 'AA1234' alike), and returns null for an empty    *)
(* text and for a text with no such pattern.                               *)
(***************************************************************************)
\* two capitals at position i, then optional whitespace, then a digit
CodeThenDigits(text, i) ==
  /\ i + 2 <= Len(text)
  /\ IsUpper(Char(text, i)) /\ IsUpper(Char(text, i + 1))
  /\ LET rest == trimStart(SubSeq(text, i + 2, Len(text)))
     IN rest # "" /\ IsDigit(Head(rest))

\* the same where the two capitals begin a word
CodeWordThenDigits(text, i) ==
  /\ CodeThenDigits(text, i)
  /\ i = 1 \/ ~IsWord(Char(text, i - 1))

C17_CarrierCodeWithOrWithoutSpace ==
  called = "extractCarrierCode" =>
    LET text == expenses[1].description
        codes == {i \in 1..Len(text) : CodeWordThenDigits(text, i)}
    IN /\ codes # {} =>
            \E i \in codes : result[1] = SubSeq(text, i, i + 1)
       /\ (\A i \in 1..Len(text) : ~CodeThenDigits(text, i)) => result[1] = ""

(***************************************************************************)
(* C19.  fuzzyStringMatch, in MatchingService and in FlightMatcher,        *)
(* returns 0 whenever exactly one of the two strings is empty after        *)
(* normalization (a string made only of punctuation included), 1.0 when    *)
(* the normalized strings are equal, and 0.9 only when one non-empty       *)
(* normalized string contains the other.                                   *)
(***************************************************************************)
\* what is left of a string after lower-casing, trimming, removing the
\* punctuation and collapsing the whitespace
Normalized(str) == collapseSpaces(removeSpecial(trim(toLowerCase(str))))

C19_EmptyAgainstNonEmpty ==
  called \in {"fuzzyStringMatch", "flightFuzzyStringMatch"} =>
    LET norm1 == Normalized(bookings[1].vendor)
        norm2 == Normalized(expenses[1].vendor)
    IN /\ ((norm1 = "") # (norm2 = "")) => result[1] = FZero
       /\ (norm1 = norm2 /\ norm1 # "") => result[1] = FOne
       /\ result[1] = Frac(9, 10) =>
            /\ norm1 # "" /\ norm2 # ""
            /\ includes(norm1, norm2) \/ includes(norm2, norm1)

(***************************************************************************)
(* C18.  The engine never mutates its inputs: matchBookingsWithExpenses,   *)
(* every step of startMatchingProcess and both findMatches leave the       *)
(* caller's bookings and expenses as they were, same length, same order,   *)
(* same field values; the card-type fix and the sorting act on copies.     *)
(***************************************************************************)
C18_InputsNeverMutated ==
  [][bookings' = bookings /\ expenses' = expenses]_vars

\* findMatches matched a booking whose card type it had to fix, and the
\* caller's record still carries the unfixed card type
C18_Witness ==
  /\ called = "findMatches"
  /\ Len(bookings) = 1
  /\ bookings[1].creditCardNetwork = "MasterCard"
  /\ bookings[1].cardTypeNormalized = "[No card type found]"
  /\ Len(result) = 1

(***************************************************************************)
(* C20.  The normalizeString of the batch service lower-cases, trims,      *)
(* removes only the punctuation (letters, digits and whitespace are kept)  *)
(* and collapses whitespace, so calculateGenericMatchScore awards the      *)
(* 20-point 'Reference match' only when the normalized alphanumeric text   *)
(* of the booking reference is a substring of the normalized description.  *)
(***************************************************************************)
C20_ReferenceMatchOnlyOnSubstring ==
  (called = "calculateGenericMatchScore"
     /\ "Reference match" \in Range(result[1].reasons)) =>
    includes(Normalized(expenses[1].description),
             Normalized(bookings[1].bookingReference))

(***************************************************************************)
(* C21.  In every progress report of a startMatchingProcess run            *)
(* 0 <= processedExpenses <= totalExpenses; the k-th report carries        *)
(* processedExpenses = min(50 * k, totalExpenses), so the value strictly   *)
(* increases from one report to the next; and isComplete is true exactly   *)
(* when processedExpenses = totalExpenses.                                 *)
(***************************************************************************)
C21_ProgressCounts ==
  /\ \A k \in 1..Len(reports) :
       /\ reports[k].totalExpenses = Len(expenses)
       /\ 0 <= reports[k].processedExpenses
       /\ reports[k].processedExpenses <= reports[k].totalExpenses
       /\ reports[k].processedExpenses =
            IF 50 * k <= Len(expenses) THEN 50 * k ELSE Len(expenses)
       /\ reports[k].isComplete <=>
            reports[k].processedExpenses = reports[k].totalExpenses
  /\ \A k \in 1..(Len(reports) - 1) :
       reports[k].processedExpenses < reports[k + 1].processedExpenses

\* a run of three chunks, the last one short
C21_Witness ==
  /\ Len(reports) = 3
  /\ reports[2].processedExpenses = 100
  /\ ~reports[2].isComplete
  /\ reports[3].processedExpenses = 101
  /\ reports[3].isComplete

(***************************************************************************)
(* C22.  Tie-break: when several candidates share the maximum score for a  *)
(* driving record, the candidate that comes first in input order is        *)
(* selected, in matchBookingsWithExpenses, in processExpenseBatch and in   *)
(* both findMatches; the MatchResults are those of the driving records     *)
(* whose first best candidate reaches the minimum, in the order of the     *)
(* driving records, so identical inputs give identical results.            *)
(***************************************************************************)
\* the first of the indices with the greatest score
FirstBest(indices, score) ==
  CHOOSE i \in indices :
    \A o \in indices : score[o] < score[i] \/ (score[o] = score[i] /\ i <= o)

\* matches is what an expense-driven procedure returns when for every
\* expense it selects the first best booking of candidates
FirstBestBookings(matches, candidates, table, minimum) ==
  LET score == [i \in 1..Len(expenses) |->
                  [j \in 1..Len(candidates) |->
                     scoreIn(table, candidates[j], expenses[i]).score]]
      best == [i \in 1..Len(expenses) |->
                 IF candidates = <<>> THEN 0
                 ELSE FirstBest(1..Len(candidates), score[i])]
      matched == {i \in 1..Len(expenses) :
                    best[i] > 0 /\ score[i][best[i]] >= minimum}
  IN /\ Len(matches) = Cardinality(matched)
     /\ \A i \in matched :
          LET k == Cardinality({o \in matched : o <= i})
          IN /\ matches[k].expenseId = idOr(expenses[i], "expense-", i - 1)
             /\ matches[k].bookingId =
                  idOr(candidates[best[i]], "booking-", best[i] - 1)
             /\ matches[k].matchConfidence = score[i][best[i]]

\* the k-th flight booking, if findMatches matched it, got the first best of
\* the expenses still free that it may pair with
FirstBestExpense(k) ==
  LET flightBookings == filterFlightBookings(bookings)
      booking == flightBookings[k]
      taken == Range(matchedExpenseIds(matchedBefore(k)))
      free == {i \in 1..Len(expenses) :
                 /\ expenseIdsOf(expenses)[i] \notin taken
                 /\ Known(expenses[i].cardLast4Normalized)
                 /\ called = "findMatchesTMC" =>
                      expenses[i].cardLast4Normalized = booking.cardLast4Normalized}
      score == [i \in 1..Len(expenses) |->
                  scoreIn(SimpleScoreTable, booking, expenses[i]).score]
      selected == {m \in 1..Len(result) :
                     result[m].bookingId = bookingIdsOf(flightBookings)[k]}
  IN IF Known(booking.cardLast4Normalized) /\ free # {}
          /\ score[FirstBest(free, score)] >= MINIMUM_CONFIDENCE_SIMPLE
     THEN \E m \in selected :
            /\ result[m].expenseId = expenseIdsOf(expenses)[FirstBest(free, score)]
            /\ result[m].matchConfidence = score[FirstBest(free, score)]
     ELSE selected = {}

C22_FirstBestCandidate ==
  /\ called = "matchBookingsWithExpenses" =>
       FirstBestBookings(result, bookings, MatchScoreTable, MINIMUM_CONFIDENCE_MATCHING)
  /\ Finished =>
       FirstBestBookings(FinalReport.matches, run.filteredBookings, BatchScoreTable,
                         MINIMUM_CONFIDENCE)
  /\ (FindMatchesCalled /\ DistinctIds) =>
       \A k \in 1..Len(filterFlightBookings(bookings)) : FirstBestExpense(k)

\* two bookings without id score the same for the first expense, and the
\* first of them was selected
C22_Witness ==
  /\ called = "matchBookingsWithExpenses"
  /\ Len(bookings) = 2
  /\ bookings[1] = bookings[2]
  /\ bookings[1].id = ""
  /\ Len(result) > 0
  /\ result[1].bookingId = "booking-0"

(***************************************************************************)
(* C23.  Chunking does not change the result: the final match list of a    *)
(* startMatchingProcess run (ids, fallback ids, scores, reasons, order)    *)
(* equals the list one single pass of processExpenseBatch over all the     *)
(* expenses and the same filtered bookings gives, and the list any other   *)
(* positive chunk size gives.                                              *)
(***************************************************************************)
OtherChunkSizes == {1, 3, 49, 64}

\* the matches of the batches of the given size from startIdx on
RECURSIVE ChunkedFrom(_, _)
ChunkedFrom(size, startIdx) ==
  IF startIdx >= Len(expenses) THEN <<>>
  ELSE processExpenseBatch(run.filteredBookings, expenses, startIdx, size)
         \o ChunkedFrom(size, startIdx + size)

C23_ChunkingInvisible ==
  Finished =>
    /\ FinalReport.matches =
         processExpenseBatch(run.filteredBookings, expenses, 0, Len(expenses))
    /\ \A size \in OtherChunkSizes : FinalReport.matches = ChunkedFrom(size, 0)

\* three chunks, and an expense of the third is matched under its
\* position-based id
C23_Witness ==
  /\ Finished
  /\ Len(reports) = 3
  /\ expenses[101].id = ""
  /\ FinalReport.matches[Len(FinalReport.matches)].expenseId = "expense-100"

(***************************************************************************)
(* C24.  Two startMatchingProcess runs in flight at once, their timer      *)
(* callbacks interleaved in any order, do not interfere: every progress    *)
(* report of a run carries that run's own processedExpenses and the        *)
(* matches of that run's own expenses up to there, a run reports           *)
(* isComplete = true exactly once, and its final match list is the one it  *)
(* delivers when it runs alone.                                            *)
(***************************************************************************)
\* what run r alone has matched once it has processed the first n expenses
AloneMatches(r, n) ==
  processExpenseBatch(filterBookings(bookings[r]), expenses[r], 0, n)

C24_RunsDoNotInterfere ==
  \A r \in Runs :
    /\ \A k \in 1..Len(reports[r]) :
         /\ reports[r][k].totalExpenses = Len(expenses[r])
         /\ reports[r][k].processedExpenses = Min2(BATCH_SIZE * k, Len(expenses[r]))
         /\ reports[r][k].matches = AloneMatches(r, reports[r][k].processedExpenses)
    /\ Cardinality({k \in 1..Len(reports[r]) : reports[r][k].isComplete})
         = IF run[r].started /\ ~run[r].timerPending THEN 1 ELSE 0
    /\ (run[r].started /\ ~run[r].timerPending) =>
         /\ reports[r][Len(reports[r])].isComplete
         /\ reports[r][Len(reports[r])].matches = AloneMatches(r, Len(expenses[r]))

\* both runs are under way, each has reported one chunk with matches of its
\* own, neither is complete
C24_Witness ==
  /\ \A r \in Runs : run[r].timerPending /\ Len(reports[r]) = 1
  /\ reports[1][1].matches # <<>>
  /\ reports[2][1].matches # <<>>
  /\ reports[1][1].matches # reports[2][1].matches

(***************************************************************************)
(* C25.  A position-based fallback id in a MatchResult denotes the record  *)
(* its consumers resolve it to: for a booking without id, the bookingId    *)
(* 'booking-N' that startMatchingProcess emits (N the index in the         *)
(* filtered bookings) or that findMatches emits (N the index in the        *)
(* filtered flight bookings) is the id getUnmatchedBookings computes for   *)
(* that same booking from the caller's bookings.                           *)
(***************************************************************************)
\* the positions, in the caller's list, of the bookings a filter admits
BatchAdmitted == {p \in 1..Len(bookings) : PassesCardFilter(bookings[p])}
FlightAdmitted ==
  {p \in 1..Len(bookings) :
     /\ bookings[p].bookingTypeNormalized = "Flight"
     /\ \/ bookings[p].cardTypeNormalized = "Mastercard"
        \/ bookings[p].creditCardNetwork = "MasterCard"}

\* every fallback id among the matches, read as a position of the filtered
\* list, names the booking that has this id in the caller's list
FallbackIdsResolve(matches, admitted) ==
  \A k \in 1..Len(matches) : \A j \in 1..Cardinality(admitted) :
    (bookings[Nth(admitted, j)].id = ""
       /\ matches[k].bookingId = "booking-" \o ToString(j - 1))
      => idOr(bookings[Nth(admitted, j)], "booking-", Nth(admitted, j) - 1)
           = matches[k].bookingId

C25_FallbackIdDenotesItsBooking ==
  /\ Finished => FallbackIdsResolve(FinalReport.matches, BatchAdmitted)
  /\ FindMatchesCalled => FallbackIdsResolve(result, FlightAdmitted)

(***************************************************************************)
(* C26.  For the bookings, expenses and match list of one assignment run   *)
(* getMatchStatistics agrees with the unmatched-record derivations:        *)
(* unmatchedBookings is the number of bookings getUnmatchedBookings        *)
(* returns, unmatchedExpenses the number getUnmatchedExpenses returns,     *)
(* neither is negative, and highConfidence + mediumConfidence +            *)
(* lowConfidence = totalMatches.                                           *)
(***************************************************************************)
C26_StatisticsConsistent ==
  called = "getMatchStatistics" =>
    LET statistics == result.statistics
    IN /\ statistics.unmatchedBookings =
            Len(getUnmatchedBookings(bookings, result.matches))
       /\ statistics.unmatchedExpenses =
            Len(getUnmatchedExpenses(expenses, result.matches))
       /\ statistics.unmatchedBookings >= 0
       /\ statistics.unmatchedExpenses >= 0
       /\ statistics.highConfidence + statistics.mediumConfidence
            + statistics.lowConfidence = statistics.totalMatches

(***************************************************************************)
(* C27.  Every MatchResult of findMatches pairs a Mastercard flight        *)
(* booking with an expense whose card last 4 is known and equal to the     *)
(* booking's, with matchConfidence >= 0.60; a missing or placeholder card  *)
(* value on either side never gives a match; and a flight booking with a   *)
(* known card stays unmatched only if every expense that carries its card  *)
(* last 4 was consumed by an earlier booking.                              *)
(***************************************************************************)
C27_CardPairsOnly ==
  (FindMatchesCalled /\ DistinctIds) =>
    LET flightBookings == filterFlightBookings(bookings)
        bookingIds == bookingIdsOf(flightBookings)
        expenseIds == expenseIdsOf(expenses)
    IN /\ \A m \in 1..Len(result) :
            /\ result[m].matchConfidence >= 60
            /\ \E k \in 1..Len(flightBookings) : bookingIds[k] = result[m].bookingId
            /\ \E i \in 1..Len(expenses) : expenseIds[i] = result[m].expenseId
            /\ \A k \in 1..Len(flightBookings), i \in 1..Len(expenses) :
                 (bookingIds[k] = result[m].bookingId
                    /\ expenseIds[i] = result[m].expenseId) =>
                   /\ flightBookings[k].cardTypeNormalized = "Mastercard"
                   /\ flightBookings[k].bookingTypeNormalized = "Flight"
                   /\ Known(flightBookings[k].cardLast4Normalized)
                   /\ Known(expenses[i].cardLast4Normalized)
                   /\ expenses[i].cardLast4Normalized
                        = flightBookings[k].cardLast4Normalized
       /\ \A k \in 1..Len(flightBookings) :
            (Known(flightBookings[k].cardLast4Normalized)
               /\ bookingIds[k] \notin Range(matchedBookingIds(result))) =>
              \A i \in 1..Len(expenses) :
                expenses[i].cardLast4Normalized = flightBookings[k].cardLast4Normalized =>
                  \E m \in 1..Len(result), earlier \in 1..(k - 1) :
                    /\ result[m].expenseId = expenseIds[i]
                    /\ result[m].bookingId = bookingIds[earlier]

\* two flight bookings on one card, an expense without card digits and an
\* expense on that card: the first booking took the latter, the second stays
\* unmatched
C27_Witness ==
  /\ called = "findMatches" /\ DistinctIds
  /\ Len(filterFlightBookings(bookings)) = 2
  /\ \A k \in 1..2 : filterFlightBookings(bookings)[k].cardLast4Normalized = "1234"
  /\ Len(expenses) = 2
  /\ expenses[1].cardLast4Normalized = NoCardLast4
  /\ expenses[2].cardLast4Normalized = "1234"
  /\ Len(result) = 1
  /\ result[1].bookingId = bookingIdsOf(filterFlightBookings(bookings))[1]
  /\ result[1].expenseId = expenseIdsOf(expenses)[2]

(***************************************************************************)
(* C28.  In calculateMatchScore and calculateGenericMatchScore, a pair of  *)
(* amounts that fuzzyAmountMatch rates above 0 (exact, within 1%, 5%, 10%  *)
(* or 15%) adds 15 x that rating to the total and the reason 'Amount       *)
(* match'; a pair rated 0 adds nothing.  The total is compared with the    *)
(* total of the same records without the booking's amount.                 *)
(***************************************************************************)
AmountCalled == called \in {"calculateMatchScore", "calculateGenericMatchScore"}

WithoutAmount ==
  LET booking == [bookings[1] EXCEPT !.amount = <<>>]
  IN IF called = "calculateMatchScore"
     THEN calculateMatchScore(booking, expenses[1])
     ELSE calculateGenericMatchScore(booking, expenses[1])

HasReason(reasons, reason) == \E k \in 1..Len(reasons) : reasons[k] = reason

C28_EveryBandContributes ==
  (AmountCalled /\ bookings[1].amount # <<>> /\ expenses[1].amount # <<>>) =>
    LET amountScore == fuzzyAmountMatch(bookings[1].amount[1], expenses[1].amount[1])
        rest == WithoutAmount
    IN /\ result[1].totalScore = FAdd(rest.totalScore, FScale(15, amountScore))
       /\ result[1].maxPossibleScore = rest.maxPossibleScore + 15
       /\ HasReason(result[1].reasons, "Amount match") <=> amountScore # FZero

(***************************************************************************)
(* C29.  For all integer amounts x (booking) and y (expense), zero and     *)
(* negative ones included, fuzzyAmountMatch, fuzzyFlightAmountMatch and    *)
(* amountMatches return a positive score only if x = y, or |x - y| is at   *)
(* most 15% of the magnitude of the mean of x and y, or (flight variant    *)
(* only) y / x is within 0.05 of 0.5.                                      *)
(***************************************************************************)
Within15Percent(x, y) == 200 * Abs(x - y) <= 15 * Abs(x + y)

AboutHalf(x, y) == x # 0 /\ 10 * Abs(2 * y - x) < Abs(x)

C29_PositiveOnlyWhenClose ==
  (/\ called \in {"fuzzyAmountMatch", "fuzzyFlightAmountMatch", "amountMatches"}
   /\ bookings[1].amount # <<>> /\ expenses[1].amount # <<>>) =>
    LET x == bookings[1].amount[1]
        y == expenses[1].amount[1]
        score == IF called = "fuzzyFlightAmountMatch" THEN result[1].score
                 ELSE result[1]
    IN score # FZero =>
         \/ x = y
         \/ Within15Percent(x, y)
         \/ called = "fuzzyFlightAmountMatch" /\ AboutHalf(x, y)

(***************************************************************************)
(* C30.  normalizeString (MatchingService, FlightMatcher and               *)
(* SimpleFlightMatcher) is idempotent and its result is canonical:         *)
(* normalizing the result again returns it unchanged, and the result has   *)
(* no leading or trailing whitespace, no punctuation and no two adjacent   *)
(* whitespace characters.                                                  *)
(***************************************************************************)
NormalizeCalled ==
  called \in {"normalizeString", "flightNormalizeString", "simpleNormalizeString"}

NormalizedAgain ==
  CASE called = "normalizeString" -> normalizeString(result[1])
    [] called = "flightNormalizeString" -> flightNormalizeString(result[1])
    [] called = "simpleNormalizeString" -> simpleNormalizeString(result[1])

Canonical(s) ==
  /\ s # "" => ~IsSpace(Char(s, 1)) /\ ~IsSpace(Char(s, Len(s)))
  /\ \A i \in 1..Len(s) : IsWord(Char(s, i)) \/ IsSpace(Char(s, i))
  /\ \A i \in 1..(Len(s) - 1) : ~(IsSpace(Char(s, i)) /\ IsSpace(Char(s, i + 1)))

C30_NormalizeIdempotentCanonical ==
  NormalizeCalled => (NormalizedAgain = result[1] /\ Canonical(result[1]))

====
